---- MODULE Spec2Model ----
(***************************************************************************)
(* A model of codex-transcriber (src/src/app.js, lines 1-1035): the text   *)
(* primitives, the conversation extractor, the transcript renderer and the *)
(* App component's state, effects and key handler.                         *)
(*                                                                         *)
(* Strings are sequences of code points.  A React state cell is a          *)
(* variable; one action is one event (a key press, a resize, the           *)
(* completion of an asynchronous step) together with the renders and the   *)
(* effects it triggers, run until no state changes.                        *)
(***************************************************************************)
EXTENDS Integers, Sequences, FiniteSets, TLC

Max(a, b) == IF a >= b THEN a ELSE b
Min(a, b) == IF a <= b THEN a ELSE b

(***************************************************************************)
(* Code points and string literals of the source.                          *)
(***************************************************************************)
LF == 10
CR == 13
TAB == 9
SP == 32

\* n copies of code point c
Rep(c, n) == [i \in 1..n |-> c]

\* "User", "Assistant", "### User", "### Assistant"
StrUser == <<85, 115, 101, 114>>
StrAssistant == <<65, 115, 115, 105, 115, 116, 97, 110, 116>>
StrHashes == <<35, 35, 35, SP>>

RECURSIVE Join(_, _)
\* Array.prototype.join with separator sep
Join(parts, sep) ==
  IF Len(parts) = 0 THEN <<>>
  ELSE IF Len(parts) = 1 THEN parts[1]
  ELSE parts[1] \o sep \o Join(Tail(parts), sep)

RECURSIVE SplitFrom(_, _, _, _)
SplitFrom(text, i, cur, acc) ==
  IF i > Len(text) THEN Append(acc, cur)
  ELSE IF text[i] = LF THEN SplitFrom(text, i + 1, <<>>, Append(acc, cur))
  ELSE SplitFrom(text, i + 1, Append(cur, text[i]), acc)

\* String.prototype.split("\n"): never empty, "" gives [""]
SplitLines(text) == SplitFrom(text, 1, <<>>, <<>>)

(***************************************************************************)
(* Width and wrap primitives.                                              *)
(***************************************************************************)
\* A faulty charWidth: 0x7F counted among the double-width code points
charWidthShortAscii(code) ==
  IF code <= 31 THEN 0
  ELSE IF code < 127 THEN 1
  ELSE 2

charWidth(code) ==
  IF code <= 31 THEN 0
  ELSE IF code <= 127 THEN 1
  ELSE 2

RECURSIVE stringWidth(_)
stringWidth(text) ==
  IF Len(text) = 0 THEN 0
  ELSE charWidth(Head(text)) + stringWidth(Tail(text))

\* A string as String.prototype.length and slice see it: UTF-16 code units
RECURSIVE Utf16(_)
Utf16(text) ==
  IF Len(text) = 0 THEN <<>>
  ELSE (IF Head(text) > 65535
          THEN <<55296 + ((Head(text) - 65536) \div 1024),
                 56320 + ((Head(text) - 65536) % 1024)>>
          ELSE <<Head(text)>>)
       \o Utf16(Tail(text))

RECURSIVE CodePoints(_)
\* The code points of a sequence of code units, as for...of and codePointAt
\* read them: a surrogate without its partner is a code point of its own
CodePoints(units) ==
  IF Len(units) = 0 THEN <<>>
  ELSE IF Len(units) >= 2 /\ units[1] \in 55296..56319 /\ units[2] \in 56320..57343
    THEN <<65536 + (units[1] - 55296) * 1024 + (units[2] - 56320)>>
         \o CodePoints(Tail(Tail(units)))
  ELSE <<Head(units)>> \o CodePoints(Tail(units))

\* units.slice(0, end)
SliceTo(units, end) ==
  SubSeq(units, 1, IF end < 0 THEN Max(Len(units) + end, 0) ELSE Min(end, Len(units)))

\* "..."
Ellipsis == <<46, 46, 46>>

truncateLabel(label, maxWidth) ==
  IF label = <<>> THEN <<>>
  ELSE IF Len(Utf16(label)) <= maxWidth THEN label
  ELSE IF maxWidth <= 3 THEN CodePoints(SliceTo(Utf16(label), maxWidth))
  ELSE CodePoints(SliceTo(Utf16(label), maxWidth - 3)) \o Ellipsis

\* A faulty padding: it counts code points where the code counts columns
padRightByLength(text, targetWidth) ==
  IF Len(text) >= targetWidth THEN text
  ELSE text \o Rep(SP, targetWidth - Len(text))

padRightByWidth(text, targetWidth) ==
  LET currentWidth == stringWidth(text)
  IN IF currentWidth >= targetWidth THEN text
     ELSE text \o Rep(SP, targetWidth - currentWidth)

\* A faulty loop body: the line is never broken before the code point
WrapPutLate(acc, ch, maxWidth) ==
  IF acc.lineWidth + charWidth(ch) >= maxWidth
    THEN [lines |-> Append(acc.lines, Append(acc.line, ch)),
          line |-> <<>>, lineWidth |-> 0]
    ELSE [lines |-> acc.lines, line |-> Append(acc.line, ch),
          lineWidth |-> acc.lineWidth + charWidth(ch)]

\* The body of wrapText's loop for one code point that is neither "\r" nor
\* "\t" (and for each of the two spaces of a tab): acc = [lines, line, lineWidth]
WrapPut(acc, ch, maxWidth) ==
  LET width == charWidth(ch)
      brk == acc.lineWidth + width > maxWidth /\ acc.line # <<>>
      lines1 == IF brk THEN Append(acc.lines, acc.line) ELSE acc.lines
      line1 == IF brk THEN <<ch>> ELSE Append(acc.line, ch)
      width1 == IF brk THEN width ELSE acc.lineWidth + width
  IN IF width1 >= maxWidth
       THEN [lines |-> Append(lines1, line1), line |-> <<>>, lineWidth |-> 0]
       ELSE [lines |-> lines1, line |-> line1, lineWidth |-> width1]

RECURSIVE WrapLoop(_, _, _, _)
WrapLoop(text, i, acc, maxWidth) ==
  IF i > Len(text) THEN acc
  ELSE IF text[i] = CR THEN WrapLoop(text, i + 1, acc, maxWidth)
  ELSE IF text[i] = TAB
    THEN WrapLoop(text, i + 1,
                  WrapPut(WrapPut(acc, SP, maxWidth), SP, maxWidth), maxWidth)
  ELSE WrapLoop(text, i + 1, WrapPut(acc, text[i], maxWidth), maxWidth)

\* wrapText after its loop: the line in progress is pushed when it is not
\* empty or when no line was pushed
WrapFlush(acc) ==
  IF acc.line # <<>> \/ Len(acc.lines) = 0
    THEN Append(acc.lines, acc.line)
    ELSE acc.lines

\* A faulty wrapText: no placeholder for the empty text
wrapTextNoPlaceholder(text, maxWidth) ==
  IF maxWidth <= 0 THEN <<text>>
  ELSE WrapFlush(WrapLoop(text, 1,
                          [lines |-> <<>>, line |-> <<>>, lineWidth |-> 0],
                          maxWidth))

wrapText(text, maxWidth) ==
  IF maxWidth <= 0 THEN <<text>>
  ELSE IF text = <<>> THEN << <<SP>> >>
  ELSE WrapFlush(WrapLoop(text, 1,
                          [lines |-> <<>>, line |-> <<>>, lineWidth |-> 0],
                          maxWidth))

\* A row is [type, role, text]; role "none" stands for a row without a role.
RowOf(type, role, text) == [type |-> type, role |-> role, text |-> text]

\* The rows wrapRows pushes for one row wrapped into lines
WrappedRow(row, lines) ==
  [index \in 1..Len(lines) |->
     RowOf(IF index = 1 THEN row.type
           ELSE IF row.type = "label" THEN "text" ELSE row.type,
           row.role, lines[index])]

RECURSIVE wrapRows(_, _)
wrapRows(rows, maxWidth) ==
  IF Len(rows) = 0 THEN <<>>
  ELSE WrappedRow(Head(rows), wrapText(Head(rows).text, maxWidth))
       \o wrapRows(Tail(rows), maxWidth)

(***************************************************************************)
(* Transcript renderer.                                                    *)
(***************************************************************************)
RECURSIVE buildMarkdownBlocks(_)
buildMarkdownBlocks(entries) ==
  IF Len(entries) = 0 THEN <<>>
  ELSE LET entry == Head(entries)
           header == StrHashes \o
                     (IF entry.role = "user" THEN StrUser ELSE StrAssistant)
       IN <<header \o <<LF>> \o entry.text>> \o buildMarkdownBlocks(Tail(entries))

buildMarkdown(entries) ==
  Join(buildMarkdownBlocks(entries), <<LF, LF>>) \o <<LF>>

buildMarkdownRows(markdown) ==
  IF markdown = <<>> THEN <<>>
  ELSE LET lines == SplitLines(markdown)
       IN [i \in 1..Len(lines) |->
             RowOf("text", "none", IF lines[i] = <<>> THEN <<SP>> ELSE lines[i])]

\* the box-text rows of one physical line wrapped into lines
BoxLines(wrapped, role, innerWidth) ==
  [i \in 1..Len(wrapped) |->
     RowOf("box-text", role,
           <<124, SP>> \o padRightByWidth(wrapped[i], innerWidth) \o <<SP, 124>>)]

RECURSIVE BoxBody(_, _, _)
\* the box-text rows of the physical lines of one entry
BoxBody(rawLines, role, innerWidth) ==
  IF Len(rawLines) = 0 THEN <<>>
  ELSE BoxLines(wrapText(Head(rawLines), innerWidth), role, innerWidth)
       \o BoxBody(Tail(rawLines), role, innerWidth)

RECURSIVE BoxBlocksUnclipped(_, _)
\* A faulty loop: the label tag is never cut to the border's inner width
BoxBlocksUnclipped(entries, maxWidth) ==
  IF Len(entries) = 0 THEN <<>>
  ELSE LET entry == Head(entries)
           innerWidth == Max(1, maxWidth - 4)
           borderInnerWidth == innerWidth + 2
           border == <<43>> \o Rep(45, borderInnerWidth) \o <<43>>
           label == IF entry.role = "user" THEN StrUser ELSE StrAssistant
           labelTag == <<SP>> \o label \o <<SP>>
           remaining == Max(0, borderInnerWidth - stringWidth(labelTag))
           topBorder == <<43>> \o labelTag \o Rep(45, remaining) \o <<43>>
       IN <<RowOf("box-border", entry.role, topBorder)>>
          \o BoxBody(SplitLines(entry.text), entry.role, innerWidth)
          \o <<RowOf("box-border", entry.role, border),
               RowOf("spacer", "none", <<SP>>),
               RowOf("spacer", "none", <<SP>>)>>
          \o BoxBlocksUnclipped(Tail(entries), maxWidth)

RECURSIVE BoxBlocks(_, _)
BoxBlocks(entries, maxWidth) ==
  IF Len(entries) = 0 THEN <<>>
  ELSE LET entry == Head(entries)
           innerWidth == Max(1, maxWidth - 4)
           borderInnerWidth == innerWidth + 2
           border == <<43>> \o Rep(45, borderInnerWidth) \o <<43>>
           label == IF entry.role = "user" THEN StrUser ELSE StrAssistant
           fullTag == <<SP>> \o label \o <<SP>>
           labelTag == IF stringWidth(fullTag) > borderInnerWidth
                         THEN SubSeq(fullTag, 1, Max(0, borderInnerWidth))
                         ELSE fullTag
           remaining == Max(0, borderInnerWidth - stringWidth(labelTag))
           topBorder == <<43>> \o labelTag \o Rep(45, remaining) \o <<43>>
       IN <<RowOf("box-border", entry.role, topBorder)>>
          \o BoxBody(SplitLines(entry.text), entry.role, innerWidth)
          \o <<RowOf("box-border", entry.role, border),
               RowOf("spacer", "none", <<SP>>),
               RowOf("spacer", "none", <<SP>>)>>
          \o BoxBlocks(Tail(entries), maxWidth)

\* A faulty trim: only one trailing spacer row is removed
TrimSpacersOnce(rows) ==
  IF Len(rows) > 0 /\ rows[Len(rows)].type = "spacer"
    THEN SubSeq(rows, 1, Len(rows) - 1)
    ELSE rows

RECURSIVE TrimSpacers(_)
TrimSpacers(rows) ==
  IF Len(rows) > 0 /\ rows[Len(rows)].type = "spacer"
    THEN TrimSpacers(SubSeq(rows, 1, Len(rows) - 1))
    ELSE rows

buildBoxRows(entries, maxWidth) == TrimSpacers(BoxBlocks(entries, maxWidth))

(***************************************************************************)
(* Values of parsed JSON records.  A value is a record tagged by t:        *)
(* a string (code points), a number, null, undefined (an absent field),    *)
(* an array or an object (a function from field names to values).          *)
(***************************************************************************)
Str(s) == [t |-> "str", s |-> s]
Num(n) == [t |-> "num", n |-> n]
Arr(a) == [t |-> "arr", a |-> a]
Obj(o) == [t |-> "obj", o |-> o]
Null == [t |-> "null"]
Undefined == [t |-> "undef"]
EmptyObj == [t |-> "obj", o |-> <<>>]

\* v.name and v?.name: undefined on a missing field and on a non-object
Get(v, name) ==
  IF v.t = "obj" /\ name \in DOMAIN v.o THEN v.o[name] ELSE Undefined

\* JavaScript truthiness
Truthy(v) ==
  CASE v.t = "str" -> v.s # <<>>
    [] v.t = "num" -> v.n # 0
    [] v.t \in {"null", "undef"} -> FALSE
    [] OTHER -> TRUE

\* a || b
OrElse(a, b) == IF Truthy(a) THEN a ELSE b

RECURSIVE Digits(_)
\* the decimal digits of a natural number
Digits(n) == IF n < 10 THEN <<48 + n>> ELSE Append(Digits(n \div 10), 48 + (n % 10))

RECURSIVE JsStringList(_)
RECURSIVE JsString(_)
\* String(v), as template literals and Array.prototype.join apply it
JsString(v) ==
  CASE v.t = "str" -> v.s
    [] v.t = "num" -> IF v.n < 0 THEN <<45>> \o Digits(0 - v.n) ELSE Digits(v.n)
    [] v.t = "null" -> <<110, 117, 108, 108>>
    [] v.t = "undef" -> <<117, 110, 100, 101, 102, 105, 110, 101, 100>>
    [] v.t = "arr" -> Join(JsStringList(v.a), <<44>>)
    [] OTHER -> <<91, 111, 98, 106, 101, 99, 116, 32, 79, 98, 106, 101, 99, 116, 93>>

\* the elements of an array as join() converts them: null and undefined give ""
JsStringList(a) ==
  [i \in 1..Len(a) |-> IF a[i].t \in {"null", "undef"} THEN <<>> ELSE JsString(a[i])]

\* The discriminants of the record schemas
S_event_msg == <<101, 118, 101, 110, 116, 95, 109, 115, 103>>
S_response_item == <<114, 101, 115, 112, 111, 110, 115, 101, 95, 105, 116, 101, 109>>
S_user_message == <<117, 115, 101, 114, 95, 109, 101, 115, 115, 97, 103, 101>>
S_agent_message == <<97, 103, 101, 110, 116, 95, 109, 101, 115, 115, 97, 103, 101>>
S_assistant_message ==
  <<97, 115, 115, 105, 115, 116, 97, 110, 116, 95, 109, 101, 115, 115, 97, 103, 101>>
S_message == <<109, 101, 115, 115, 97, 103, 101>>
S_user == <<117, 115, 101, 114>>
S_assistant == <<97, 115, 115, 105, 115, 116, 97, 110, 116>>
S_input_text == <<105, 110, 112, 117, 116, 95, 116, 101, 120, 116>>
S_output_text == <<111, 117, 116, 112, 117, 116, 95, 116, 101, 120, 116>>

(***************************************************************************)
(* Conversation extractor.                                                 *)
(***************************************************************************)
EXCLUDE_PREFIXES ==
  << <<35, 32, 65, 71, 69, 78, 84, 83, 46, 109, 100>>,
     <<60, 101, 110, 118, 105, 114, 111, 110, 109, 101, 110, 116, 95, 99, 111,
       110, 116, 101, 120, 116, 62>>,
     <<60, 112, 101, 114, 109, 105, 115, 115, 105, 111, 110, 115, 32, 105, 110,
       115, 116, 114, 117, 99, 116, 105, 111, 110, 115, 62>>,
     <<60, 73, 78, 83, 84, 82, 85, 67, 84, 73, 79, 78, 83, 62>> >>

\* White space and line terminators, as String.prototype.trimStart strips them
WhiteSpace ==
  {9, 10, 11, 12, 13, 32, 160, 5760, 8232, 8233, 8239, 8287, 12288, 65279}
    \cup (8192..8202)

RECURSIVE trimStart(_)
trimStart(s) ==
  IF Len(s) > 0 /\ Head(s) \in WhiteSpace THEN trimStart(Tail(s)) ELSE s

startsWith(s, prefix) ==
  Len(s) >= Len(prefix) /\ SubSeq(s, 1, Len(prefix)) = prefix

\* shouldExcludeText raises a TypeError on a truthy value that is no string
shouldExcludeTextThrows(text) == Truthy(text) /\ text.t # "str"

\* A faulty shouldExcludeText: the prefixes are looked for without trimming
shouldExcludeTextUntrimmed(text) ==
  IF ~Truthy(text) THEN TRUE
  ELSE \E i \in 1..Len(EXCLUDE_PREFIXES) : startsWith(text.s, EXCLUDE_PREFIXES[i])

shouldExcludeText(text) ==
  IF ~Truthy(text) THEN TRUE
  ELSE LET trimmed == trimStart(text.s)
       IN \E i \in 1..Len(EXCLUDE_PREFIXES) : startsWith(trimmed, EXCLUDE_PREFIXES[i])

imagePlaceholders(payload) ==
  LET a == Get(payload, "images")
      b == Get(payload, "local_images")
      images == (IF a.t = "arr" THEN a.a ELSE <<>>)
                \o (IF b.t = "arr" THEN b.a ELSE <<>>)
  IN [index \in 1..Len(images) |-> <<91, 105, 109, 97, 103, 101, 32>>
                                     \o Digits(index) \o <<93>>]

\* A faulty appendImages: no blank line between the text and the placeholders
appendImagesTight(text, payload) ==
  LET placeholders == imagePlaceholders(payload)
      suffix == Join(placeholders, <<LF>>)
  IN IF Len(placeholders) = 0 THEN text
     ELSE IF ~Truthy(text) THEN Str(suffix)
     ELSE Str(JsString(text) \o <<LF>> \o suffix)

appendImages(text, payload) ==
  LET placeholders == imagePlaceholders(payload)
      suffix == Join(placeholders, <<LF>>)
  IN IF Len(placeholders) = 0 THEN text
     ELSE IF ~Truthy(text) THEN Str(suffix)
     ELSE Str(JsString(text) \o <<LF, LF>> \o suffix)

\* Faulty filters: every part is kept, whatever its type and its text
ContentPartsUnfiltered(content) ==
  [i \in 1..Len(content) |-> Get(content[i], "text")]

\* the content parts kept by buildTextFromContent's two filters, as values
ContentParts(content) ==
  LET isText(item) == Get(item, "type") \in {Str(S_input_text), Str(S_output_text)}
      texts == [i \in 1..Len(content) |-> Get(content[i], "text")]
      keep == {i \in 1..Len(content) : isText(content[i]) /\ Truthy(texts[i])}
      RECURSIVE pick(_)
      pick(i) == IF i > Len(content) THEN <<>>
                 ELSE (IF i \in keep THEN <<texts[i]>> ELSE <<>>) \o pick(i + 1)
  IN pick(1)

buildTextFromContent(content) ==
  IF content.t # "arr" THEN Str(<<>>)
  ELSE Str(Join(JsStringList(ContentParts(content.a)), <<LF>>))

\* A line of a log: blank, not parseable, or the value JSON.parse returns
BlankLine == [k |-> "blank"]
BadLine == [k |-> "bad"]
JsonLine(v) == [k |-> "json", v |-> v]

Entry(role, text) == [role |-> role, text |-> text]

\* The candidate text of a record for the primary stream and its role, or
\* role "none" when the record is no user/agent/assistant message event
EventCandidate(parsed) ==
  LET payload == OrElse(Get(parsed, "payload"), EmptyObj)
      msgType == Get(payload, "type")
      message == OrElse(Get(payload, "message"), Str(<<>>))
  IN IF Get(parsed, "type") # Str(S_event_msg) THEN [role |-> "none", text |-> Undefined]
     ELSE IF msgType = Str(S_user_message)
       THEN [role |-> "user", text |-> appendImages(message, payload)]
     ELSE IF msgType \in {Str(S_agent_message), Str(S_assistant_message)}
       THEN [role |-> "assistant", text |-> message]
     ELSE [role |-> "none", text |-> Undefined]

\* The same for the fallback stream
FallbackCandidate(parsed) ==
  LET payload == OrElse(Get(parsed, "payload"), EmptyObj)
      role == Get(payload, "role")
  IN IF Get(parsed, "type") = Str(S_response_item)
        /\ Get(payload, "type") = Str(S_message)
        /\ role \in {Str(S_user), Str(S_assistant)}
       THEN [role |-> IF role = Str(S_user) THEN "user" ELSE "assistant",
             text |-> buildTextFromContent(Get(payload, "content"))]
       ELSE [role |-> "none", text |-> Undefined]

\* One iteration of extractConversation's loop.  acc = [eventMessages,
\* fallbackMessages, threw]; threw records an exception leaving the loop.
\* if (!shouldExcludeText(text)) stream.push({role, text})
PushUnlessExcluded(acc, stream, cand) ==
  IF shouldExcludeTextThrows(cand.text) THEN [acc EXCEPT !.threw = TRUE]
  ELSE IF shouldExcludeText(cand.text) THEN acc
  ELSE [acc EXCEPT ![stream] = Append(@, Entry(cand.role, cand.text.s))]

\* The two branches of the loop body for the candidates ev and fb of a record
RouteRecord(acc, ev, fb) ==
  IF ev.role # "none" THEN PushUnlessExcluded(acc, "eventMessages", ev)
  ELSE IF fb.role # "none" THEN PushUnlessExcluded(acc, "fallbackMessages", fb)
  ELSE acc

\* A faulty loop body: a line that is no JSON ends the extraction
ProcessLineStrict(acc, line) ==
  IF acc.threw THEN acc
  ELSE IF line.k = "bad" THEN [acc EXCEPT !.threw = TRUE]
  ELSE IF line.k # "json" THEN acc
  ELSE RouteRecord(acc, EventCandidate(line.v), FallbackCandidate(line.v))

ProcessLine(acc, line) ==
  IF acc.threw \/ line.k # "json" THEN acc
  ELSE RouteRecord(acc, EventCandidate(line.v), FallbackCandidate(line.v))

EmptyStreams == [eventMessages |-> <<>>, fallbackMessages |-> <<>>, threw |-> FALSE]

\* A faulty return statement: the two streams one after the other
ExtractResultMixed(acc) == acc.eventMessages \o acc.fallbackMessages

\* extractConversation's return statement
ExtractResult(acc) ==
  IF Len(acc.eventMessages) > 0 THEN acc.eventMessages ELSE acc.fallbackMessages

RECURSIVE ScanLines(_, _, _)
ScanLines(log, i, acc) ==
  IF i > Len(log) THEN acc ELSE ScanLines(log, i + 1, ProcessLine(acc, log[i]))

\* extractConversation on a log: [ok, entries]; ok FALSE when it throws
ExtractOutcome(acc) ==
  IF acc.threw THEN [ok |-> FALSE, entries |-> <<>>]
  ELSE [ok |-> TRUE, entries |-> ExtractResult(acc)]

extractConversation(log) == ExtractOutcome(ScanLines(log, 1, EmptyStreams))

(***************************************************************************)
(* Session locator.  A directory is [readable, entries]; an entry is       *)
(* [name, kind, node] with kind "dir" (node a directory), "file" (node a   *)
(* file) or "other".  A file is [readOk, log, statOk, mtimeMs]: log is the *)
(* sequence of its lines, readOk FALSE makes reading it fail, statOk FALSE *)
(* makes fs.stat fail.                                                     *)
(*                                                                         *)
(* Time: the model's calendar is two minutes, 1970-01-01T00:00 and         *)
(* 2024-01-02T03:04 (UTC, which is also taken as the local time zone); a   *)
(* time is a number of milliseconds from the start of the first, and the   *)
(* second minute starts at MinuteStart.  NaN is [ok |-> FALSE].            *)
(***************************************************************************)
S_jsonl == <<46, 106, 115, 111, 110, 108>>
S_session_meta == <<115, 101, 115, 115, 105, 111, 110, 95, 109, 101, 116, 97>>
S_rollout == <<114, 111, 108, 108, 111, 117, 116, 45>>
S_isoMinute == <<50, 48, 50, 52, 45, 48, 49, 45, 48, 50, 84, 48, 51, 58, 48, 52, 58>>
S_localMinute == <<50, 48, 50, 52, 45, 48, 49, 45, 48, 50, 32, 48, 51, 58, 48, 52, 58>>
S_fileMinute == <<50, 48, 50, 52, 45, 48, 49, 45, 48, 50, 84, 48, 51, 45, 48, 52, 45>>
S_isoEpoch == <<49, 57, 55, 48, 45, 48, 49, 45, 48, 49, 84, 48, 48, 58, 48, 48, 58>>
S_localEpoch == <<49, 57, 55, 48, 45, 48, 49, 45, 48, 49, 32, 48, 48, 58, 48, 48, 58>>
MinuteStart == 60 * 1000

NaN == [ok |-> FALSE, ms |-> 0]
Time(ms) == [ok |-> TRUE, ms |-> ms]
IsDigit(c) == c >= 48 /\ c <= 57

endsWith(s, suffix) ==
  Len(s) >= Len(suffix) /\ SubSeq(s, Len(s) - Len(suffix) + 1, Len(s)) = suffix

\* path.join(dir, name)
PathJoin(dir, name) == dir \o <<47>> \o name

\* path.basename(p)
Basename(p) ==
  LET slashes == {i \in 1..Len(p) : p[i] = 47}
      last == IF slashes = {} THEN 0 ELSE CHOOSE i \in slashes : \A j \in slashes : j <= i
  IN SubSeq(p, last + 1, Len(p))

\* path.relative(baseDir, filePath) for a path below baseDir
PathRelative(baseDir, filePath) ==
  IF startsWith(filePath, baseDir \o <<47>>)
    THEN SubSeq(filePath, Len(baseDir) + 2, Len(filePath))
    ELSE filePath

RECURSIVE findJsonlFiles(_, _)
RECURSIVE FindInEntries(_, _, _)
FindInEntries(entries, i, dirPath) ==
  IF i > Len(entries) THEN <<>>
  ELSE LET entry == entries[i]
           fullPath == PathJoin(dirPath, entry.name)
           found == IF entry.kind = "dir" THEN findJsonlFiles(entry.node, fullPath)
                    ELSE IF entry.kind = "file" /\ endsWith(entry.name, S_jsonl)
                      THEN << [path |-> fullPath, file |-> entry.node] >>
                    ELSE <<>>
       IN found \o FindInEntries(entries, i + 1, dirPath)

\* the files found under dir, each [path, file]; an unreadable directory gives []
findJsonlFiles(dir, dirPath) ==
  IF ~dir.readable THEN <<>> ELSE FindInEntries(dir.entries, 1, dirPath)

\* String.prototype.trim on a line, as far as emptiness goes
IsBlankText(s) == trimStart(s) = <<>>

\* readSessionMeta: the first line's record when it is a session_meta record,
\* else null (also on a read or parse failure)
readSessionMeta(file) ==
  IF ~file.readOk \/ Len(file.log) = 0 THEN Null
  ELSE LET line == file.log[1]
       IN IF line.k = "json" /\ Get(line.v, "type") = Str(S_session_meta)
            THEN line.v
            ELSE Null

\* Date.parse / new Date(string) on the model's calendar:
\* "2024-01-02T03:04:SSZ" and "1970-01-01T00:00:SSZ"
DateParse(s) ==
  IF Len(s) = 20 /\ (startsWith(s, S_isoMinute) \/ startsWith(s, S_isoEpoch))
     /\ s[20] = 90 /\ IsDigit(s[18]) /\ IsDigit(s[19]) /\ s[18] <= 53
    THEN Time((IF startsWith(s, S_isoMinute) THEN MinuteStart ELSE 0)
              + ((s[18] - 48) * 10 + (s[19] - 48)) * 1000)
    ELSE NaN

\* new Date(value).getTime()
NewDate(v) ==
  CASE v.t = "str" -> DateParse(v.s)
    [] v.t = "num" -> Time(v.n)
    [] OTHER -> NaN

\* formatLocalTimestamp: "YYYY-MM-DD hh:mm:ss" of a time of the model's minute
formatLocalTimestamp(ms) ==
  LET sec == (ms % MinuteStart) \div 1000
  IN (IF ms >= MinuteStart THEN S_localMinute ELSE S_localEpoch)
     \o <<48 + (sec \div 10), 48 + (sec % 10)>>

\* The regular expression of parseTimestampMsFromFilename at position i of name
RolloutAt(name, i) ==
  /\ i + 26 <= Len(name)
  /\ SubSeq(name, i, i + 7) = S_rollout
  /\ \A k \in {8, 9, 10, 11, 13, 14, 16, 17, 19, 20, 22, 23, 25, 26} : IsDigit(name[i + k])
  /\ name[i + 12] = 45 /\ name[i + 15] = 45 /\ name[i + 18] = 84
  /\ name[i + 21] = 45 /\ name[i + 24] = 45

parseTimestampMsFromFilename(filePath) ==
  LET name == Basename(filePath)
      hits == {i \in 1..Len(name) : RolloutAt(name, i)}
  IN IF hits = {} THEN Null
     ELSE LET i == CHOOSE h \in hits : \A g \in hits : h <= g
              iso == SubSeq(name, i + 8, i + 18) \o SubSeq(name, i + 19, i + 20)
                     \o <<58>> \o SubSeq(name, i + 22, i + 23)
                     \o <<58>> \o SubSeq(name, i + 25, i + 26) \o <<90>>
              date == DateParse(iso)
          IN IF date.ok THEN Num(date.ms) ELSE Null

parseTimestampFromFilename(filePath) ==
  LET timestampMs == parseTimestampMsFromFilename(filePath)
  IN IF ~Truthy(timestampMs) THEN Null ELSE Str(formatLocalTimestamp(timestampMs.n))

formatTimestamp(timestamp) ==
  IF ~Truthy(timestamp) THEN Null
  ELSE LET date == NewDate(timestamp)
       IN IF ~date.ok THEN Null ELSE Str(formatLocalTimestamp(date.ms))

buildSessionLabel(meta, filePath, baseDir) ==
  LET tsRaw == OrElse(Get(Get(meta, "payload"), "timestamp"), Get(meta, "timestamp"))
      ts == OrElse(formatTimestamp(tsRaw), parseTimestampFromFilename(filePath))
  IN IF Truthy(ts) THEN ts.s ELSE PathRelative(baseDir, filePath)

\* a || null
OrNull(v) == IF Truthy(v) THEN v ELSE Null

\* The descriptor the scan builds for one found file (app.js 642-669)
BuildSession(found, baseDir) ==
  LET filePath == found.path
      meta == readSessionMeta(found.file)
      label == buildSessionLabel(meta, filePath, baseDir)
      id == OrNull(Get(Get(meta, "payload"), "id"))
      tsRaw == OrElse(Get(Get(meta, "payload"), "timestamp"), Get(meta, "timestamp"))
      metaTs == IF Truthy(tsRaw) THEN DateParse(JsString(tsRaw)) ELSE NaN
      mtimeMs == IF found.file.statOk THEN found.file.mtimeMs ELSE 0
      filenameMs == OrElse(parseTimestampMsFromFilename(filePath), Num(0)).n
      metaMs == IF ~metaTs.ok THEN 0 ELSE metaTs.ms
      sortKey == IF mtimeMs # 0 THEN mtimeMs
                 ELSE IF metaMs # 0 THEN metaMs
                 ELSE IF filenameMs # 0 THEN filenameMs ELSE 0
  IN [id |-> id, label |-> label, path |-> filePath, sortKey |-> sortKey,
      git |-> OrNull(OrElse(Get(Get(meta, "payload"), "git"), Get(meta, "git")))]

RECURSIVE LocaleCompare(_, _)
\* String.prototype.localeCompare on labels of digits, lower-case letters and
\* punctuation, where the collation order is the code point order: -1, 0 or 1
LocaleCompare(a, b) ==
  IF Len(a) = 0 /\ Len(b) = 0 THEN 0
  ELSE IF Len(a) = 0 THEN -1
  ELSE IF Len(b) = 0 THEN 1
  ELSE IF Head(a) < Head(b) THEN -1
  ELSE IF Head(a) > Head(b) THEN 1
  ELSE LocaleCompare(Tail(a), Tail(b))

\* The comparator of the earlier variants of the scan (app.js 1583-1588 and
\* 2427-2432): the sort keys decide only when both are non-zero
CompareSessionsEarlier(a, b) ==
  IF a.sortKey # 0 /\ b.sortKey # 0 /\ a.sortKey # b.sortKey
    THEN b.sortKey - a.sortKey
    ELSE LocaleCompare(a.label, b.label)

\* A faulty comparator: ascending sort keys
CompareSessionsAscending(a, b) ==
  IF a.sortKey # b.sortKey THEN a.sortKey - b.sortKey
  ELSE LocaleCompare(a.label, b.label)

\* The comparator of sessionsData.sort (app.js 671-674)
CompareSessions(a, b) ==
  IF a.sortKey # b.sortKey THEN b.sortKey - a.sortKey
  ELSE LocaleCompare(a.label, b.label)

RECURSIVE InsertSession(_, _)
InsertSession(sorted, x) ==
  IF Len(sorted) = 0 THEN <<x>>
  ELSE IF CompareSessions(sorted[Len(sorted)], x) <= 0 THEN Append(sorted, x)
  ELSE Append(InsertSession(SubSeq(sorted, 1, Len(sorted) - 1), x), sorted[Len(sorted)])

RECURSIVE SortSessions(_)
\* Array.prototype.sort with CompareSessions: a stable sort
SortSessions(data) ==
  IF Len(data) = 0 THEN <<>>
  ELSE InsertSession(SortSessions(SubSeq(data, 1, Len(data) - 1)), data[Len(data)])

\* DEFAULT_SESSIONS_DIR and process.cwd()
DEFAULT_SESSIONS_DIR == <<47, 115>>
Cwd == <<47, 119>>


(***************************************************************************)
(* Keys.  A key is the pair (input, key) Ink passes to the handler, as one  *)
(* record.                                                                 *)
(***************************************************************************)
NoKey ==
  [input |-> <<>>, upArrow |-> FALSE, downArrow |-> FALSE, tab |-> FALSE,
   escape |-> FALSE, return |-> FALSE, backspace |-> FALSE, delete |-> FALSE,
   ctrl |-> FALSE]
Ch(c) == [NoKey EXCEPT !.input = <<c>>]
Ctrl(c) == [NoKey EXCEPT !.input = <<c>>, !.ctrl = TRUE]
KeyUp == [NoKey EXCEPT !.upArrow = TRUE]
KeyDown == [NoKey EXCEPT !.downArrow = TRUE]
KeyTab == [NoKey EXCEPT !.tab = TRUE]
KeyEscape == [NoKey EXCEPT !.escape = TRUE]
KeyReturn == [NoKey EXCEPT !.return = TRUE]
KeyBackspace == [NoKey EXCEPT !.backspace = TRUE]
KeyDelete == [NoKey EXCEPT !.delete = TRUE]
\* "1" "2" "q" "k" "j" "b" "f" "g" "G" "c" "m" "e" "u" "d" "x"
Key1 == Ch(49)
Key2 == Ch(50)
KeyQ == Ch(113)
KeyK == Ch(107)
KeyJ == Ch(106)
KeyB == Ch(98)
KeyF == Ch(102)
KeyG == Ch(103)
KeyShiftG == Ch(71)
KeyC == Ch(99)
KeyM == Ch(109)
KeyE == Ch(101)
KeyX == Ch(120)
KeyCtrlU == Ctrl(117)
KeyCtrlD == Ctrl(100)


(***************************************************************************)
(* The worlds of the runs.                                                 *)
(***************************************************************************)
\* Records of a log
EventMsg(msgType, fields) ==
  JsonLine(Obj([type |-> Str(S_event_msg),
                payload |-> Obj([type |-> Str(msgType)] @@ fields)]))
UserMessage(text) == EventMsg(S_user_message, [message |-> Str(text)])
AgentMessage(text) == EventMsg(S_agent_message, [message |-> Str(text)])
TextPart(type, text) == Obj([type |-> Str(type), text |-> Str(text)])
ResponseItem(role, parts) ==
  JsonLine(Obj([type |-> Str(S_response_item),
                payload |-> Obj([type |-> Str(S_message), role |-> Str(role),
                                 content |-> Arr(parts)])]))
SessionMeta(fields) ==
  JsonLine(Obj([type |-> Str(S_session_meta), payload |-> Obj(fields)]))

FileOf(log, mtimeMs) == [readOk |-> TRUE, log |-> log, statOk |-> TRUE, mtimeMs |-> mtimeMs]
FileEntry(name, file) == [name |-> name, kind |-> "file", node |-> file]
DirEntry(name, dir) == [name |-> name, kind |-> "dir", node |-> dir]

\* a.jsonl: a metadata record with timestamp ...:07 and id "A", then a
\* conversation in both schemas (a user message 15 columns wide)
FileA ==
  FileOf(<< SessionMeta([timestamp |-> Str(S_isoMinute \o <<48, 55, 90>>),
                         id |-> Str(<<65>>)]),
            UserMessage(Rep(97, 15)),
            ResponseItem(S_assistant, <<TextPart(S_output_text, <<122, 122>>)>>),
            AgentMessage(<<98, LF, 99>>) >>, 5)

\* d/c.jsonl: no metadata, fs.stat fails, and no entry survives the exclusion
FileC ==
  [FileOf(<< BadLine, BlankLine,
             UserMessage(EXCLUDE_PREFIXES[2] \o <<120>>) >>, 0)
     EXCEPT !.statOk = FALSE]

\* d/rollout-2024-01-02T03-04-03.jsonl: no metadata, response items only
FileR ==
  FileOf(<< ResponseItem(S_user, <<TextPart(S_input_text, <<113>>)>>),
            ResponseItem(S_assistant, <<TextPart(S_output_text, <<114>>),
                                        TextPart(S_output_text, <<115>>)>>) >>, 5)

NameNotes == <<110, 111, 116, 101, 115, 46, 116, 120, 116>>
NameA == <<97, 46, 106, 115, 111, 110, 108>>
NameC == <<99, 46, 106, 115, 111, 110, 108>>
NameD == <<100>>
NameR == S_rollout \o S_fileMinute \o <<48, 51>> \o S_jsonl

\* three logs, found in the order a, d/c, d/rollout...
WorldMain ==
  [readable |-> TRUE,
   entries |-> << FileEntry(NameNotes, FileOf(<<>>, 1)),
                  FileEntry(NameA, FileA),
                  DirEntry(NameD, [readable |-> TRUE,
                                   entries |-> << FileEntry(NameC, FileC),
                                                  FileEntry(NameR, FileR) >>]) >>]

\* a readable root without a log: another file and an unreadable directory
WorldEmpty ==
  [readable |-> TRUE,
   entries |-> << FileEntry(NameNotes, FileOf(<<>>, 1)),
                  DirEntry(NameD, [readable |-> FALSE, entries |-> <<>>]) >>]

\* a root that cannot be read
WorldUnreadable == [readable |-> FALSE, entries |-> <<>>]

AllKeys ==
  {Key1, Key2, KeyQ, KeyK, KeyJ, KeyB, KeyF, KeyG, KeyShiftG, KeyC, KeyM, KeyE,
   KeyX, KeyCtrlU, KeyCtrlD, KeyUp, KeyDown, KeyTab, KeyEscape, KeyReturn,
   KeyBackspace, KeyDelete}

\* The terminal sizes: 8 or 14 rows (2 or 5 visible list rows), 45 or 46
\* columns (a content width of 18 or 19)
TermRows == {8, 14}
TermColumns == {45, 46}

\* a.jsonl alone
WorldSolo == [readable |-> TRUE, entries |-> << FileEntry(NameA, FileA) >>]

\* The runs: browsing three sessions on a terminal that is resized; resuming
\* one of them; exporting the only session, scrolled to its end or not; all
\* keys without any session.
\* typed is the set of keys the operator edits the export path with.
Worlds ==
  { [fs |-> WorldMain, keys |-> AllKeys \ {KeyE, KeyC}, typed |-> {},
     resizes |-> TRUE],
    [fs |-> WorldMain, keys |-> {KeyC, KeyJ, KeyK, KeyQ}, typed |-> {},
     resizes |-> FALSE],
    [fs |-> WorldSolo,
     keys |-> {KeyE, KeyEscape, KeyReturn, KeyBackspace, KeyDelete, KeyX, KeyQ,
               Key2, KeyShiftG, KeyM, KeyTab},
     typed |-> {KeyQ, KeyTab, KeyBackspace, KeyDelete},
     resizes |-> FALSE],
    [fs |-> WorldEmpty, keys |-> AllKeys, typed |-> {}, resizes |-> TRUE],
    [fs |-> WorldUnreadable, keys |-> AllKeys, typed |-> {}, resizes |-> TRUE] }

\* Bounds of a run: characters typed after, and erased from, the default
\* export path; writes in flight; children being spawned
MaxTyped == 1
MaxErased == 0
MaxWrites == 2
MaxChildren == 1

(***************************************************************************)
(* The App component.                                                      *)
(*                                                                         *)
(* env is the world of one run: the sessions directory (fs), the keys the  *)
(* operator uses (keys) and whether the terminal is resized (resizes).     *)
(* stdoutRows and stdoutColumns are the terminal's size (stdout.rows and    *)
(* stdout.columns), renderedRows and renderedColumns the size the last     *)
(* render read.  The other variables are App's state cells (under their    *)
(* source names), the asynchronous work in flight (scan, tasks, writes,    *)
(* children) and the state of the process (running, exited, or crashed on  *)
(* an uncaught exception).                                                 *)
(***************************************************************************)
VARIABLES env, stdoutRows, stdoutColumns, renderedRows, renderedColumns,
          sessions, selectedIndex, scrollOffset, loadingSessions, sessionsError,
          selectedSession, conversation, loadingConversation, conversationError,
          viewMode, exporting, exportPath, status, statusDetail,
          rightScrollOffset, focus,
          scan, tasks, writes, children, proc

appVars == <<env, stdoutRows, stdoutColumns, renderedRows, renderedColumns,
             sessions, selectedIndex, scrollOffset, loadingSessions, sessionsError,
             selectedSession, conversation, loadingConversation, conversationError,
             viewMode, exporting, exportPath, status, statusDetail,
             rightScrollOffset, focus,
             scan, tasks, writes, children, proc>>

\* The last render's terminal size, the state cells and the work in flight
\* as one record
Cells ==
  [rows |-> renderedRows, columns |-> renderedColumns,
   sessions |-> sessions, selectedIndex |-> selectedIndex,
   scrollOffset |-> scrollOffset, loadingSessions |-> loadingSessions,
   sessionsError |-> sessionsError, selectedSession |-> selectedSession,
   conversation |-> conversation, loadingConversation |-> loadingConversation,
   conversationError |-> conversationError, viewMode |-> viewMode,
   exporting |-> exporting, exportPath |-> exportPath, status |-> status,
   statusDetail |-> statusDetail, rightScrollOffset |-> rightScrollOffset,
   focus |-> focus, tasks |-> tasks, writes |-> writes, children |-> children,
   proc |-> proc]

\* The next state's cells are those of record s
Becomes(s) ==
  /\ renderedRows' = s.rows /\ renderedColumns' = s.columns
  /\ sessions' = s.sessions /\ selectedIndex' = s.selectedIndex
  /\ scrollOffset' = s.scrollOffset /\ loadingSessions' = s.loadingSessions
  /\ sessionsError' = s.sessionsError /\ selectedSession' = s.selectedSession
  /\ conversation' = s.conversation /\ loadingConversation' = s.loadingConversation
  /\ conversationError' = s.conversationError /\ viewMode' = s.viewMode
  /\ exporting' = s.exporting /\ exportPath' = s.exportPath /\ status' = s.status
  /\ statusDetail' = s.statusDetail /\ rightScrollOffset' = s.rightScrollOffset
  /\ focus' = s.focus /\ tasks' = s.tasks /\ writes' = s.writes
  /\ children' = s.children /\ proc' = s.proc

(***************************************************************************)
(* Values derived in a render of state s (app.js 699-746, 794-813).        *)
(***************************************************************************)
leftWidth == 25

paneHeight(s) ==
  LET rows == IF s.rows = 0 THEN 24 ELSE s.rows
      headerLines == 6
      footerLines == 1
  IN Max(4, rows - headerLines - footerLines)

baseVisibleCount(s) == Max(1, paneHeight(s) - 2)

leftVisibleCount(s) == baseVisibleCount(s)

rightContentWidth(s) ==
  LET columns == IF s.columns = 0 THEN 120 ELSE s.columns
      rightPaneWidth == Max(20, columns - leftWidth)
  IN Max(10, rightPaneWidth - 2)

\* rightHeaderLines.length: Repository, Branch and a blank line, or nothing
rightHeaderHeight(s) == IF s.selectedSession = Null THEN 0 ELSE 3

rightVisibleCount(s) == Max(1, baseVisibleCount(s) - rightHeaderHeight(s))

markdown(s) == buildMarkdown(s.conversation)

prettyRows(s) == buildBoxRows(s.conversation, rightContentWidth(s))

markdownRows(s) == buildMarkdownRows(markdown(s))

conversationRows(s) == IF s.viewMode = "markdown" THEN markdownRows(s) ELSE prettyRows(s)

wrappedRows(s) == wrapRows(conversationRows(s), rightContentWidth(s))

\* The conversations of the worlds' logs, and the terminal widths of the runs
KnownFiles(dir) ==
  LET found == findJsonlFiles(dir, DEFAULT_SESSIONS_DIR)
  IN {found[i].file : i \in 1..Len(found)}
KnownConversations ==
  {<<>>} \cup {extractConversation(f.log).entries :
                 f \in UNION {KnownFiles(w.fs) : w \in Worlds}}
WrappedCountMemo ==
  [c \in KnownConversations, m \in {"pretty", "markdown"}, col \in TermColumns |->
     Len(wrappedRows([conversation |-> c, viewMode |-> m, columns |-> col]))]

\* wrappedRows.length.  The rows are memoized (useMemo) on the conversation,
\* the render mode and the content width, which the terminal's columns fix.
rightTotalCount(s) == WrappedCountMemo[s.conversation, s.viewMode, s.columns]

maxRightOffset(s) == Max(0, rightTotalCount(s) - rightVisibleCount(s))

\* sessions[selectedIndex] || null
SessionAt(list, index) ==
  IF index >= 0 /\ index < Len(list) THEN list[index + 1] ELSE Null

(***************************************************************************)
(* The effects.  Each takes the previous render's state (prev), the state  *)
(* of the render being committed (cur) and the state s as updated by the   *)
(* effects before it, and gives s as it updates it; it runs when one of    *)
(* its dependencies differs between prev and cur.                          *)
(***************************************************************************)
\* app.js 694-697
SelectSessionEffect(prev, cur, s) ==
  IF cur.sessions # prev.sessions \/ cur.selectedIndex # prev.selectedIndex
    THEN [s EXCEPT !.selectedSession = SessionAt(cur.sessions, cur.selectedIndex)]
    ELSE s

\* The updater of the scroll-follow effect (app.js 751-760)
FollowSelection(prevOffset, index, visibleCount, maxOffset) ==
  LET n1 == IF index < prevOffset THEN index ELSE prevOffset
      n2 == IF index >= n1 + visibleCount THEN index - visibleCount + 1 ELSE n1
      n3 == IF n2 > maxOffset THEN maxOffset ELSE n2
  IN IF n3 < 0 THEN 0 ELSE n3

\* A faulty scroll-follow effect: it never runs
ScrollFollowEffectOff(prev, cur, s) == s

\* app.js 748-761
ScrollFollowEffect(prev, cur, s) ==
  IF /\ \/ cur.selectedIndex # prev.selectedIndex
        \/ Len(cur.sessions) # Len(prev.sessions)
        \/ baseVisibleCount(cur) # baseVisibleCount(prev)
     /\ Len(cur.sessions) # 0
    THEN [s EXCEPT !.scrollOffset =
            FollowSelection(@, cur.selectedIndex, baseVisibleCount(cur),
                            Max(0, Len(cur.sessions) - baseVisibleCount(cur)))]
    ELSE s

\* The cleanup of the conversation-loading effect: cancelled = true
CancelTasks(ts) == {[t EXCEPT !.cancelled = TRUE] : t \in ts}

\* app.js 763-792, up to the await: the cleanup of the previous run, then
\* either the reset for no session or the start of a new extraction task
ConversationEffect(prev, cur, s) ==
  IF cur.selectedSession = prev.selectedSession THEN s
  ELSE IF cur.selectedSession = Null
    THEN [s EXCEPT !.tasks = CancelTasks(@),
                   !.conversation = <<>>,
                   !.conversationError = ""]
  ELSE [s EXCEPT !.tasks = CancelTasks(@)
                    \cup {[path |-> cur.selectedSession.path, cancelled |-> FALSE]},
                 !.loadingConversation = TRUE,
                 !.conversationError = "",
                 !.conversation = <<>>]

\* A faulty re-clamp effect: it never runs
ReclampEffectOff(prev, cur, s) == s

\* app.js 816-818: the effect runs when maxRightOffset changed
Reclamp(prevMax, curMax, s) ==
  IF curMax # prevMax
    THEN [s EXCEPT !.rightScrollOffset = Min(@, curMax)]
    ELSE s

ReclampEffect(prev, cur, s) == Reclamp(maxRightOffset(prev), maxRightOffset(cur), s)

\* A faulty reset effect: it never runs
ResetOffsetEffectOff(prev, cur, s) == s

\* A faulty reset effect: it depends on the session and the mode alone
ResetOnSessionOrMode(prev, cur, s) ==
  IF cur.selectedSession # prev.selectedSession \/ cur.viewMode # prev.viewMode
    THEN [s EXCEPT !.rightScrollOffset = 0]
    ELSE s

\* app.js 820-822
ResetOffsetEffect(prev, cur, s) ==
  IF \/ cur.selectedSession # prev.selectedSession
     \/ cur.viewMode # prev.viewMode
     \/ rightContentWidth(cur) # rightContentWidth(prev)
     \/ rightHeaderHeight(cur) # rightHeaderHeight(prev)
    THEN [s EXCEPT !.rightScrollOffset = 0]
    ELSE s

\* The effects of one commit, in the order of their declaration
RunEffects(prev, cur) ==
  ResetOffsetEffect(prev, cur,
    ReclampEffect(prev, cur,
      ConversationEffect(prev, cur,
        ScrollFollowEffect(prev, cur,
          SelectSessionEffect(prev, cur, cur)))))

RECURSIVE Commit(_, _)
\* The effects gave next from cur: render again when they changed the state
Rerender(cur, next) == IF next = cur THEN cur ELSE Commit(cur, next)

\* Render cur after prev, run the effects, and render again while they
\* change the state
Commit(prev, cur) == Rerender(cur, RunEffects(prev, cur))

(***************************************************************************)
(* The key handler (app.js 837-964).                                       *)
(***************************************************************************)
\* Math.ceil(n / 2)
CeilHalf(n) == (n + 1) \div 2

\* path.basename(p, ext)
BasenameExt(p, ext) ==
  LET b == Basename(p)
  IN IF endsWith(b, ext) /\ Len(b) > Len(ext) THEN SubSeq(b, 1, Len(b) - Len(ext)) ELSE b

\* defaultExportPath raises a TypeError when there is no session
defaultExportPathThrows(session) == session = Null

defaultExportPath(session) ==
  LET base == IF Truthy(session.id) THEN JsString(session.id)
              ELSE BasenameExt(session.path, S_jsonl)
  IN PathJoin(Cwd, base \o <<46, 109, 100>>)

sessionResumeId(session) ==
  IF session = Null THEN Null ELSE OrNull(session.id)

\* launchCodexResume (app.js 617-632), up to the child's events
launchCodexResume(s, session) ==
  IF ~Truthy(sessionResumeId(session))
    THEN [s EXCEPT !.status = "session id not found", !.statusDetail = <<>>]
    ELSE [s EXCEPT !.children = @ + 1]

\* handleExportSubmit (app.js 824-835), up to the await: the write starts
\* with the path and the Markdown text of the last render
handleExportSubmit(s) ==
  [s EXCEPT !.writes = Append(@, [path |-> s.exportPath, markdown |-> markdown(s)])]

\* A faulty export mode: 'q' quits as it does outside export mode
ExportModeKeyQuits(s, key) ==
  IF key.escape
    THEN [s EXCEPT !.exporting = FALSE, !.status = "Export cancelled",
                   !.statusDetail = <<>>]
  ELSE IF key.return THEN handleExportSubmit(s)
  ELSE IF key.backspace \/ key.delete
    THEN [s EXCEPT !.exportPath = SubSeq(@, 1, Len(@) - 1)]
  ELSE IF key.input = <<113>> THEN [s EXCEPT !.proc = "exited"]
  ELSE IF key.input # <<>> THEN [s EXCEPT !.exportPath = @ \o key.input]
  ELSE s

\* app.js 838-857
ExportModeKey(s, key) ==
  IF key.escape
    THEN [s EXCEPT !.exporting = FALSE, !.status = "Export cancelled",
                   !.statusDetail = <<>>]
  ELSE IF key.return THEN handleExportSubmit(s)
  ELSE IF key.backspace \/ key.delete
    THEN [s EXCEPT !.exportPath = SubSeq(@, 1, Len(@) - 1)]
  ELSE IF key.input # <<>> THEN [s EXCEPT !.exportPath = @ \o key.input]
  ELSE s

\* app.js 877-909: the left pane's keys; handled FALSE when none matches
LeftPaneKey(s, key) ==
  LET n == Len(s.sessions)
      set(i) == [handled |-> TRUE, s |-> [s EXCEPT !.selectedIndex = i]]
  IN IF key.upArrow \/ key.input = KeyK.input
       THEN set(Max(0, s.selectedIndex - 1))
     ELSE IF key.downArrow \/ key.input = KeyJ.input
       THEN set(Min(n - 1, s.selectedIndex + 1))
     ELSE IF key.input = KeyB.input
       THEN set(Max(0, s.selectedIndex - leftVisibleCount(s)))
     ELSE IF key.input = KeyF.input
       THEN set(Min(n - 1, s.selectedIndex + leftVisibleCount(s)))
     ELSE IF key.input = KeyG.input THEN set(0)
     ELSE IF key.input = KeyShiftG.input THEN set(Max(0, n - 1))
     ELSE IF key.input = KeyC.input
       THEN [handled |-> TRUE,
             s |-> launchCodexResume(s,
                     IF s.selectedSession # Null THEN s.selectedSession
                     ELSE SessionAt(s.sessions, s.selectedIndex))]
     ELSE [handled |-> FALSE, s |-> s]

\* app.js 911-952: the right pane's keys
RightPaneKeyWith(s, key, max, visible) ==
  LET set(i) == [handled |-> TRUE, s |-> [s EXCEPT !.rightScrollOffset = i]]
  IN IF key.upArrow \/ key.input = KeyK.input
       THEN set(Max(0, s.rightScrollOffset - 1))
     ELSE IF key.downArrow \/ key.input = KeyJ.input
       THEN set(Min(max, s.rightScrollOffset + 1))
     ELSE IF key.input = KeyB.input
       THEN set(Max(0, s.rightScrollOffset - visible))
     ELSE IF key.input = KeyF.input
       THEN set(Min(max, s.rightScrollOffset + visible))
     ELSE IF key.ctrl /\ key.input = KeyCtrlU.input
       THEN set(Max(0, s.rightScrollOffset - CeilHalf(visible)))
     ELSE IF key.ctrl /\ key.input = KeyCtrlD.input
       THEN set(Min(max, s.rightScrollOffset + CeilHalf(visible)))
     ELSE IF key.input = KeyG.input THEN set(0)
     ELSE IF key.input = KeyShiftG.input THEN set(max)
     ELSE [handled |-> FALSE, s |-> s]

\* A faulty handler: its pages are one row longer than the pane
RightPaneKeyLongPage(s, key) ==
  RightPaneKeyWith(s, key, maxRightOffset(s), rightVisibleCount(s) + 1)

\* with maxRightOffset and rightVisibleCount of the last render
RightPaneKey(s, key) ==
  RightPaneKeyWith(s, key, maxRightOffset(s), rightVisibleCount(s))

\* app.js 953-963: the keys of both panes
ModeOrExportKey(s, key) ==
  IF key.input = KeyM.input
    THEN [s EXCEPT !.viewMode = IF @ = "pretty" THEN "markdown" ELSE "pretty"]
  ELSE IF key.input = KeyE.input
    THEN IF defaultExportPathThrows(s.selectedSession)
           THEN [s EXCEPT !.proc = "crashed"]
           ELSE [s EXCEPT !.exportPath = defaultExportPath(s.selectedSession),
                          !.exporting = TRUE, !.status = "",
                          !.statusDetail = <<>>]
  ELSE s

\* A pane's key returns from the handler; the others fall through to m and e
PaneKey(s, key, pane) == IF pane.handled THEN pane.s ELSE ModeOrExportKey(s, key)

\* A faulty handler: the navigation keys move the selection whichever pane
\* is focused
useInputUnfocused(s, key) ==
  IF s.exporting THEN ExportModeKey(s, key)
  ELSE IF key.tab
    THEN [s EXCEPT !.focus = IF @ = "left" THEN "right" ELSE "left"]
  ELSE IF key.input = Key1.input THEN [s EXCEPT !.focus = "left"]
  ELSE IF key.input = Key2.input THEN [s EXCEPT !.focus = "right"]
  ELSE IF key.input = KeyQ.input THEN [s EXCEPT !.proc = "exited"]
  ELSE PaneKey(s, key, LeftPaneKey(s, key))

\* The handler: the state cells as one key press leaves them, before the
\* render it causes
useInput(s, key) ==
  IF s.exporting THEN ExportModeKey(s, key)
  ELSE IF key.tab
    THEN [s EXCEPT !.focus = IF @ = "left" THEN "right" ELSE "left"]
  ELSE IF key.input = Key1.input THEN [s EXCEPT !.focus = "left"]
  ELSE IF key.input = Key2.input THEN [s EXCEPT !.focus = "right"]
  ELSE IF key.input = KeyQ.input THEN [s EXCEPT !.proc = "exited"]
  ELSE PaneKey(s, key,
               IF s.focus = "left" THEN LeftPaneKey(s, key)
               ELSE IF s.focus = "right" THEN RightPaneKey(s, key)
               ELSE [handled |-> FALSE, s |-> s])

\* The state cells of s are those of t: React then renders nothing
SameState(s, t) ==
  [s EXCEPT !.tasks = t.tasks, !.writes = t.writes, !.children = t.children] = t

\* A render of cells cur after the last one, on a terminal of the given size
RenderWith(cur, rows, columns) ==
  Commit(Cells, [cur EXCEPT !.rows = rows, !.columns = columns])

\* The state after an event that left the cells as cur: the renders and
\* effects a change of state causes while the app is mounted; leaving (exit
\* or an uncaught exception) unmounts the app, whose cleanups cancel the tasks
Settle(cur) ==
  IF cur.proc # "running" THEN [cur EXCEPT !.tasks = CancelTasks(@)]
  ELSE IF SameState(cur, Cells) THEN cur
  ELSE RenderWith(cur, stdoutRows, stdoutColumns)

(***************************************************************************)
(* The extractor, one line at a time (the second specification).           *)
(***************************************************************************)
VARIABLES extractLog, extractPos, extractAcc, extractOut

extractVars == <<extractLog, extractPos, extractAcc, extractOut>>

\* The text primitives applied to one input (the third specification):
\* the text, the width or budget, and what the call under study returned
VARIABLES textIn, textBudget, textOut

textVars == <<textIn, textBudget, textOut>>

\* The session scan applied to one directory (the fourth specification):
\* the log files found, and what the step under study returned
VARIABLES dirIn, dirOut
VARIABLES renderIn, renderWidth, renderOut

dirVars == <<dirIn, dirOut>>
renderVars == <<renderIn, renderWidth, renderOut>>
vars == <<appVars, extractVars, textVars, dirVars, renderVars>>

NoCall == [op |-> "none"]

\* No text primitive is being followed
TextIdle == textIn = <<>> /\ textBudget = 0 /\ textOut = NoCall

\* No scan is being followed
DirIdle == dirIn = <<>> /\ dirOut = NoCall

\* No renderer is being followed
RenderIdle == renderIn = <<>> /\ renderWidth = 0 /\ renderOut = NoCall

NoOutcome == [done |-> FALSE, ok |-> FALSE, entries |-> <<>>]

\* No extraction is being followed line by line
ExtractIdle ==
  /\ extractLog = <<>> /\ extractPos = 1
  /\ extractAcc = EmptyStreams /\ extractOut = NoOutcome

(***************************************************************************)
(* Init: the app after it is mounted.  The mount effects have started the  *)
(* scan; nothing is selected.                                              *)
(***************************************************************************)
AppInit(world, rows, columns) ==
  /\ env = world
  /\ stdoutRows = rows /\ stdoutColumns = columns
  /\ renderedRows = rows /\ renderedColumns = columns
  /\ sessions = <<>> /\ selectedIndex = 0 /\ scrollOffset = 0
  /\ loadingSessions = TRUE /\ sessionsError = ""
  /\ selectedSession = Null
  /\ conversation = <<>> /\ loadingConversation = FALSE /\ conversationError = ""
  /\ viewMode = "pretty" /\ exporting = FALSE /\ exportPath = <<>>
  /\ status = "" /\ statusDetail = <<>>
  /\ rightScrollOffset = 0 /\ focus = "left"
  /\ scan = [pc |-> "readdir", files |-> <<>>, done |-> {}]
  /\ tasks = {} /\ writes = <<>> /\ children = 0
  /\ proc = "running"

Init ==
  /\ \E world \in Worlds : AppInit(world, 8, 45)
  /\ ExtractIdle
  /\ TextIdle
  /\ DirIdle
  /\ RenderIdle

(***************************************************************************)
(* Actions.                                                                *)
(***************************************************************************)
\* The file at a path among the files found
FileAmong(found, path) ==
  found[CHOOSE k \in 1..Len(found) : found[k].path = path].file

\* The file a path names in the sessions directory
FileAt(path) == FileAmong(findJsonlFiles(env.fs, DEFAULT_SESSIONS_DIR), path)

\* The bounds on what the operator types
WithinBounds(key) ==
  /\ exporting /\ ~key.escape /\ ~key.return => key \in env.typed
  /\ exporting /\ key.input # <<>> /\ ~key.escape /\ ~key.return
       /\ ~key.backspace /\ ~key.delete
     => Len(exportPath) < Len(defaultExportPath(selectedSession)) + MaxTyped
  /\ exporting /\ (key.backspace \/ key.delete) /\ ~key.escape /\ ~key.return
     => Len(exportPath) + MaxErased > Len(defaultExportPath(selectedSession))
  /\ exporting /\ key.return /\ ~key.escape => Len(writes) < MaxWrites
  /\ ~exporting /\ key = KeyC => children < MaxChildren

\* A key press: the handler, then the renders and effects it causes
KeyPress(key) ==
  /\ proc = "running"
  /\ key \in env.keys
  /\ WithinBounds(key)
  /\ Becomes(Settle(useInput(Cells, key)))
  /\ UNCHANGED <<env, stdoutRows, stdoutColumns, scan, extractVars, textVars, dirVars, renderVars>>

\* The terminal is resized.  The app has no handler for it: its renders read
\* stdout.rows and stdout.columns (app.js 699-721).  Whether the resize makes
\* the renderer render the component again is the renderer's choice (renders).
Resize(rows, columns, renders) ==
  /\ proc = "running"
  /\ env.resizes
  /\ <<rows, columns>> # <<stdoutRows, stdoutColumns>>
  /\ stdoutRows' = rows /\ stdoutColumns' = columns
  /\ Becomes(IF renders THEN RenderWith(Cells, rows, columns) ELSE Cells)
  /\ UNCHANGED <<env, scan, extractVars, textVars, dirVars, renderVars>>

\* The scan effect's findJsonlFiles returns (app.js 640)
ScanReaddir ==
  /\ proc # "crashed"
  /\ scan.pc = "readdir"
  /\ scan' = [scan EXCEPT !.pc = "meta",
                          !.files = findJsonlFiles(env.fs, DEFAULT_SESSIONS_DIR)]
  /\ Becomes(Cells)
  /\ UNCHANGED <<env, stdoutRows, stdoutColumns, extractVars, textVars, dirVars, renderVars>>

\* The descriptor of one file is built (app.js 642-669), in any order
ScanMeta(i) ==
  /\ proc # "crashed"
  /\ scan.pc = "meta"
  /\ i \in (1..Len(scan.files)) \ scan.done
  /\ scan' = [scan EXCEPT !.done = @ \cup {i}]
  /\ Becomes(Cells)
  /\ UNCHANGED <<env, stdoutRows, stdoutColumns, extractVars, textVars, dirVars, renderVars>>

\* A faulty publication: the descriptors in the order the files were found
ScanPublishUnsorted(s, files) ==
  [s EXCEPT !.sessions = [i \in 1..Len(files) |->
                            BuildSession(files[i], DEFAULT_SESSIONS_DIR)],
            !.selectedIndex = 0,
            !.scrollOffset = 0,
            !.loadingSessions = FALSE]

\* A faulty scan: a file that cannot be read or whose stat fails ends the
\* scan with an error
ScanPublishAborting(s, files) ==
  IF \E i \in 1..Len(files) : ~files[i].file.readOk \/ ~files[i].file.statOk
    THEN [s EXCEPT !.sessionsError = "EACCES", !.loadingSessions = FALSE]
    ELSE [s EXCEPT !.sessions = SortSessions([i \in 1..Len(files) |->
                                   BuildSession(files[i], DEFAULT_SESSIONS_DIR)]),
                   !.selectedIndex = 0,
                   !.scrollOffset = 0,
                   !.loadingSessions = FALSE]

\* What the scan publishes (app.js 641-679)
ScanPublish(s, files) ==
  [s EXCEPT !.sessions = SortSessions([i \in 1..Len(files) |->
                                         BuildSession(files[i], DEFAULT_SESSIONS_DIR)]),
            !.selectedIndex = 0,
            !.scrollOffset = 0,
            !.loadingSessions = FALSE]

\* Promise.all resolves: sort and, unless cancelled, publish (app.js 671-686)
ScanFinish ==
  /\ proc # "crashed"
  /\ scan.pc = "meta"
  /\ scan.done = 1..Len(scan.files)
  /\ scan' = [scan EXCEPT !.pc = "done"]
  /\ Becomes(IF proc = "running" THEN Settle(ScanPublish(Cells, scan.files)) ELSE Cells)
  /\ UNCHANGED <<env, stdoutRows, stdoutColumns, extractVars, textVars, dirVars, renderVars>>

\* A faulty completion: it applies the result of a cancelled task as well
ExtractionApplyStale(s, task, result) ==
  IF result.ok
    THEN [s EXCEPT !.conversation = result.entries,
                   !.rightScrollOffset = 0,
                   !.loadingConversation = FALSE]
    ELSE [s EXCEPT !.conversationError = "read error",
                   !.loadingConversation = FALSE]

\* A faulty completion: the end of a cancelled task clears the loading flag
ExtractionApplyClearsLoading(s, task, result) ==
  IF task.cancelled THEN [s EXCEPT !.loadingConversation = FALSE]
  ELSE IF result.ok
    THEN [s EXCEPT !.conversation = result.entries,
                   !.rightScrollOffset = 0,
                   !.loadingConversation = FALSE]
    ELSE [s EXCEPT !.conversationError = "read error",
                   !.loadingConversation = FALSE]

\* A faulty completion: a failed extraction is reported as a failed scan
ExtractionApplyAsScanError(s, task, result) ==
  IF task.cancelled THEN s
  ELSE IF result.ok
    THEN [s EXCEPT !.conversation = result.entries,
                   !.rightScrollOffset = 0,
                   !.loadingConversation = FALSE]
    ELSE [s EXCEPT !.sessionsError = "read error",
                   !.conversationError = "read error",
                   !.loadingConversation = FALSE]

\* What a completed extraction task applies (app.js 775-786)
ExtractionApply(s, task, result) ==
  IF task.cancelled THEN s
  ELSE IF result.ok
    THEN [s EXCEPT !.conversation = result.entries,
                   !.rightScrollOffset = 0,
                   !.loadingConversation = FALSE]
    ELSE [s EXCEPT !.conversationError = "read error",
                   !.loadingConversation = FALSE]

\* An extraction task completes: with the entries of its file, or with an
\* error when reading fails (ioFails) or the extractor throws
ExtractionDone(task, ioFails) ==
  /\ proc # "crashed"
  /\ task \in tasks
  /\ Becomes(Settle([ExtractionApply(Cells, task,
                        IF ioFails THEN [ok |-> FALSE, entries |-> <<>>]
                        ELSE extractConversation(FileAt(task.path).log))
                        EXCEPT !.tasks = @ \ {task}]))
  /\ UNCHANGED <<env, stdoutRows, stdoutColumns, scan, extractVars, textVars, dirVars, renderVars>>

\* A faulty completion: a failed write leaves the app in export mode
WriteApplyStaysOpen(s, write, ok) ==
  IF ok THEN [s EXCEPT !.status = "Export complete", !.statusDetail = write.path,
                       !.exporting = FALSE]
  ELSE [s EXCEPT !.status = "Export failed", !.statusDetail = <<69>>]

\* What a completed write applies (app.js 827-834)
WriteApply(s, write, ok) ==
  IF ok THEN [s EXCEPT !.status = "Export complete", !.statusDetail = write.path,
                       !.exporting = FALSE]
  ELSE [s EXCEPT !.status = "Export failed", !.statusDetail = <<69>>,
                 !.exporting = FALSE]

\* The writes in flight but the i-th
WithoutWrite(ws, i) == SubSeq(ws, 1, i - 1) \o SubSeq(ws, i + 1, Len(ws))

\* The i-th of the writes in flight, in the order they were started,
\* completes or fails
WriteDone(i, ok) ==
  /\ proc # "crashed"
  /\ i \in 1..Len(writes)
  /\ Becomes(Settle([(IF proc = "running" THEN WriteApply(Cells, writes[i], ok) ELSE Cells)
                        EXCEPT !.writes = WithoutWrite(@, i)]))
  /\ UNCHANGED <<env, stdoutRows, stdoutColumns, scan, extractVars, textVars, dirVars, renderVars>>

\* What an event of the spawned child applies (app.js 625-631)
ChildApply(s, event) ==
  IF event = "error"
    THEN [s EXCEPT !.status = "codex launch failed", !.statusDetail = <<69>>]
    ELSE [s EXCEPT !.proc = "exited"]

\* The spawned child reports "error" or "spawn"
ChildEvent(event) ==
  /\ proc # "crashed"
  /\ children > 0
  /\ Becomes(Settle([(IF proc = "running" THEN ChildApply(Cells, event) ELSE Cells)
                        EXCEPT !.children = @ - 1]))
  /\ UNCHANGED <<env, stdoutRows, stdoutColumns, scan, extractVars, textVars, dirVars, renderVars>>

Next ==
  \/ \E key \in AllKeys : KeyPress(key)
  \/ \E rows \in TermRows, columns \in TermColumns, renders \in BOOLEAN :
       Resize(rows, columns, renders)
  \/ ScanReaddir
  \/ \E i \in 1..3 : ScanMeta(i)
  \/ ScanFinish
  \/ \E task \in tasks, ioFails \in BOOLEAN : ExtractionDone(task, ioFails)
  \/ \E i \in 1..Len(writes), ok \in BOOLEAN : WriteDone(i, ok)
  \/ \E event \in {"error", "spawn"} : ChildEvent(event)

Spec == Init /\ [][Next]_vars

(***************************************************************************)
(* The second specification: extractConversation followed line by line on  *)
(* every log of at most MaxLogLines lines drawn from ExtractLines.          *)
(***************************************************************************)
MaxLogLines == 3

\* A blank line, a line that is no JSON, a line whose JSON is no record;
\* user messages: kept, excluded by a prefix, excluded by a prefix after
\* white space, with two images and no text, with text and an attachment of
\* each kind, with a message that is no string; an agent message (whose
\* images do not count); response items: of a user, of an assistant with
\* parts of another type and without text, of another role, without parts,
\* with a part whose text is no string
NumberMessage == EventMsg(S_user_message, [message |-> Num(5)])
NumberPart ==
  ResponseItem(S_user, <<Obj([type |-> Str(S_input_text), text |-> Num(7)])>>)

ExtractLines ==
  { BlankLine,
    BadLine,
    JsonLine(Null),
    UserMessage(<<117>>),
    UserMessage(EXCLUDE_PREFIXES[4] \o <<117>>),
    UserMessage(<<SP, LF>> \o EXCLUDE_PREFIXES[1]),
    EventMsg(S_user_message,
             [message |-> Str(<<>>), images |-> Arr(<<Str(<<105>>), Str(<<106>>)>>)]),
    EventMsg(S_user_message,
             [message |-> Str(<<118>>), images |-> Arr(<<Str(<<105>>)>>),
              local_images |-> Arr(<<Str(<<108>>)>>)]),
    NumberMessage,
    EventMsg(S_agent_message,
             [message |-> Str(<<97>>), images |-> Arr(<<Str(<<105>>)>>)]),
    ResponseItem(S_user, <<TextPart(S_input_text, <<112>>)>>),
    ResponseItem(S_assistant, <<TextPart(S_output_text, <<113>>),
                                TextPart(S_message, <<120>>),
                                TextPart(S_output_text, <<>>),
                                TextPart(S_input_text, <<114>>)>>),
    ResponseItem(S_message, <<TextPart(S_input_text, <<115>>)>>),
    ResponseItem(S_user, <<>>),
    NumberPart }

Logs == UNION {[1..n -> ExtractLines] : n \in 0..MaxLogLines}

\* The app of the second specification: mounted, and left alone
IdleWorld == [fs |-> WorldEmpty, keys |-> {}, typed |-> {}, resizes |-> FALSE]

InitExtract ==
  /\ AppInit(IdleWorld, 8, 45)
  /\ extractLog \in Logs
  /\ extractPos = 1
  /\ extractAcc = EmptyStreams
  /\ extractOut = NoOutcome
  /\ TextIdle
  /\ DirIdle
  /\ RenderIdle

\* One iteration of the loop over the lines (app.js 303-341); an exception
\* leaves the loop
ExtractStep ==
  /\ ~extractOut.done
  /\ ~extractAcc.threw
  /\ extractPos <= Len(extractLog)
  /\ extractAcc' = ProcessLine(extractAcc, extractLog[extractPos])
  /\ extractPos' = extractPos + 1
  /\ UNCHANGED <<extractLog, extractOut, appVars, textVars, dirVars, renderVars>>

\* The return statement (app.js 343-344), or the exception reaching the caller
ExtractEnd ==
  /\ ~extractOut.done
  /\ extractAcc.threw \/ extractPos > Len(extractLog)
  /\ extractOut' = [done |-> TRUE, ok |-> ExtractOutcome(extractAcc).ok,
                    entries |-> ExtractOutcome(extractAcc).entries]
  /\ UNCHANGED <<extractLog, extractPos, extractAcc, appVars, textVars, dirVars, renderVars>>

NextExtract == ExtractStep \/ ExtractEnd

SpecExtract == InitExtract /\ [][NextExtract]_vars

(***************************************************************************)
(* The third specification: the text primitives, each applied to every     *)
(* text of at most MaxTextLen code points of TextAlphabet and every label  *)
(* of at most MaxLabelLen code points of LabelAlphabet, at every width or  *)
(* budget up to MaxBudget.                                                 *)
(***************************************************************************)
MaxTextLen == 3
MaxLabelLen == 5
MaxBudget == 5

\* "\r", "\t", " ", "a", the ends of the three width classes (0x1F, 0x7F,
\* 0x80) and a double-width letter (U+3042)
TextAlphabet == {CR, TAB, SP, 97, 31, 127, 128, 12354}

\* "a", a double-width letter and a code point outside the BMP (U+1F600)
LabelAlphabet == {97, 12354, 128512}

Texts == UNION {[1..n -> TextAlphabet] : n \in 0..MaxTextLen}
Labels == UNION {[1..n -> LabelAlphabet] : n \in 0..MaxLabelLen}

InitText ==
  /\ AppInit(IdleWorld, 8, 45)
  /\ ExtractIdle
  /\ textIn \in Texts \cup Labels
  /\ textBudget \in 0..MaxBudget
  /\ textOut = NoCall
  /\ DirIdle
  /\ RenderIdle

\* The rows a text is wrapped in: one row of the text, then a spacer
InputRows(type) == <<RowOf(type, "user", textIn), RowOf("spacer", "none", <<SP>>)>>

Returns(out) ==
  /\ textOut' = out
  /\ UNCHANGED <<textIn, textBudget, appVars, extractVars, dirVars, renderVars>>

WrapTextCall ==
  /\ textOut = NoCall
  /\ Returns([op |-> "wrapText", lines |-> wrapText(textIn, textBudget)])

\* The lines of a wrapText call, rejoined and wrapped again at the same width
WrapTextAgain ==
  /\ textOut.op = "wrapText"
  /\ Returns([op |-> "wrapTextAgain", lines |-> textOut.lines,
              again |-> wrapText(Join(textOut.lines, <<>>), textBudget)])

WrapRowsCall(type) ==
  /\ textOut = NoCall
  /\ Returns([op |-> "wrapRows", rows |-> wrapRows(InputRows(type), textBudget)])

\* The rows of a wrapRows call wrapped again at the same width
WrapRowsAgain ==
  /\ textOut.op = "wrapRows"
  /\ Returns([op |-> "wrapRowsAgain", rows |-> textOut.rows,
              again |-> wrapRows(textOut.rows, textBudget)])

StringWidthCall ==
  /\ textOut = NoCall
  /\ Returns([op |-> "stringWidth", width |-> stringWidth(textIn)])

TruncateLabelCall ==
  /\ textOut = NoCall
  /\ textIn \in Labels
  /\ Returns([op |-> "truncateLabel", label |-> truncateLabel(textIn, textBudget)])

NextText ==
  \/ WrapTextCall
  \/ WrapTextAgain
  \/ \E type \in {"text", "label"} : WrapRowsCall(type)
  \/ WrapRowsAgain
  \/ StringWidthCall
  \/ TruncateLabelCall

SpecText == InitText /\ [][NextText]_vars

(***************************************************************************)
(* The fourth specification: the session scan on the log files found in a  *)
(* directory.  The directory holds one file, of any name of FileNames, any *)
(* first line of FirstLines and any outcome of fs.stat, or at most         *)
(* MaxFiles files of different names of ListNames and of the kinds of      *)
(* ListFiles.                                                              *)
(***************************************************************************)
MaxFiles == 3

NameB == <<98, 46, 106, 115, 111, 110, 108>>
NameE == <<101, 46, 106, 115, 111, 110, 108>>
S_fileEpoch == <<49, 57, 55, 48, 45, 48, 49, 45, 48, 49, 84, 48, 48, 45, 48, 48, 45>>
\* rollout-1970-01-01T00-00-00.jsonl, and a name whose date is not valid:
\* rollout-2024-01-02T03-04-99.jsonl
NameEpoch == S_rollout \o S_fileEpoch \o <<48, 48>> \o S_jsonl
NameBadDate == S_rollout \o S_fileMinute \o <<57, 57>> \o S_jsonl

FileNames == {NameA, NameR, NameEpoch, NameBadDate}
ListNames == {NameA, NameB, NameC, NameE}

GitOf(branch) == Obj([branch |-> Str(branch)])

\* A metadata record with its fields under payload, and one with them flat
MetaNested ==
  SessionMeta([timestamp |-> Str(S_isoMinute \o <<48, 55, 90>>),
               id |-> Str(<<65>>), git |-> GitOf(<<109>>)])
MetaFlat ==
  JsonLine(Obj([type |-> Str(S_session_meta),
                timestamp |-> Str(S_isoMinute \o <<48, 56, 90>>),
                id |-> Str(<<66>>), git |-> GitOf(<<110>>)]))

\* The first lines: the two metadata records, metadata whose timestamp does
\* not parse, metadata dated 1970-01-01T00:00:00Z, a message, and no JSON
FirstLines ==
  { MetaNested, MetaFlat,
    SessionMeta([timestamp |-> Str(<<120>>)]),
    SessionMeta([timestamp |-> Str(S_isoEpoch \o <<48, 48, 90>>)]),
    UserMessage(<<117>>),
    BadLine }

\* The files of the one-file directories: a first line, or a file that
\* cannot be read; modified at 9 ms or at 0 ms, or fs.stat fails
OneFiles ==
  { [readOk |-> readOk, log |-> <<line>>, statOk |-> statOk, mtimeMs |-> mtimeMs] :
      readOk \in BOOLEAN, line \in FirstLines, statOk \in BOOLEAN, mtimeMs \in {0, 9} }

\* The kinds of file of the longer directories: without metadata and
\* modified at 3 or 5 ms, or fs.stat fails; with a first line that is no
\* JSON; and with metadata but no modification time
HealthyFile == FileOf(<<MetaNested>>, 5)
ListFiles ==
  { FileOf(<<UserMessage(<<117>>)>>, 3),
    FileOf(<<UserMessage(<<117>>)>>, 5),
    [FileOf(<<UserMessage(<<117>>)>>, 0) EXCEPT !.statOk = FALSE],
    FileOf(<<BadLine>>, 5),
    [HealthyFile EXCEPT !.statOk = FALSE] }

FoundAs(name, file) == [path |-> PathJoin(DEFAULT_SESSIONS_DIR, name), file |-> file]

OneFileDirs == {<<FoundAs(name, file)>> : name \in FileNames, file \in OneFiles}

\* The files found in a directory of n files of different names
DirsOf(n) ==
  { [i \in 1..n |-> FoundAs(names[i], files[i])] :
      names \in {f \in [1..n -> ListNames] : \A i, j \in 1..n : i # j => f[i] # f[j]},
      files \in [1..n -> ListFiles] }

InitDir ==
  /\ AppInit(IdleWorld, 8, 45)
  /\ ExtractIdle
  /\ TextIdle
  /\ dirIn \in OneFileDirs \cup UNION {DirsOf(n) : n \in 0..MaxFiles}
  /\ dirOut = NoCall
  /\ RenderIdle

Yields(out) ==
  /\ dirOut' = out
  /\ UNCHANGED <<dirIn, appVars, extractVars, textVars, renderVars>>

\* The descriptor of the file of a one-file directory is built
DescribeCall ==
  /\ dirOut = NoCall
  /\ dirIn \in OneFileDirs
  /\ Yields([op |-> "describe",
             session |-> BuildSession(dirIn[1], DEFAULT_SESSIONS_DIR)])

\* The scan of the directory runs to its end
Scanned(s) ==
  [op |-> "scan", sessions |-> s.sessions,
   sessionsError |-> s.sessionsError, loadingSessions |-> s.loadingSessions]

ScanCall ==
  /\ dirOut = NoCall
  /\ Yields(Scanned(ScanPublish(Cells, dirIn)))

\* The descriptors of three files are compared two by two, by the
\* comparator of the scan or by that of its earlier variants
Compared(earlier, a, b, c) ==
  [op |-> "compare", earlier |-> earlier,
   ab |-> IF earlier THEN CompareSessionsEarlier(a, b) ELSE CompareSessions(a, b),
   bc |-> IF earlier THEN CompareSessionsEarlier(b, c) ELSE CompareSessions(b, c),
   ac |-> IF earlier THEN CompareSessionsEarlier(a, c) ELSE CompareSessions(a, c)]

CompareCall(earlier) ==
  /\ dirOut = NoCall
  /\ Len(dirIn) = 3
  /\ Yields(Compared(earlier,
                     BuildSession(dirIn[1], DEFAULT_SESSIONS_DIR),
                     BuildSession(dirIn[2], DEFAULT_SESSIONS_DIR),
                     BuildSession(dirIn[3], DEFAULT_SESSIONS_DIR)))

NextDir ==
  \/ DescribeCall
  \/ ScanCall
  \/ \E earlier \in BOOLEAN : CompareCall(earlier)

SpecDir == InitDir /\ [][NextDir]_vars

(***************************************************************************)
(* The fifth specification: the transcript renderers on entry lists.  The  *)
(* list is empty or holds one or two entries of either role, whose texts   *)
(* are the non-empty texts of at most MaxEntryLen code points of           *)
(* RenderAlphabet (the extraction keeps no empty text) and two texts too   *)
(* wide for one row of the narrower boxes; the second entry of a list of   *)
(* two has a text of one code point.  The content width is one of          *)
(* RenderWidths; the app renders at widths from 10 (app.js 717-721).       *)
(***************************************************************************)
MaxEntryLen == 2

\* "a", a line feed, a double-width code point and ESC, which has no width
RenderAlphabet == {97, LF, 12354, 27}
RenderWidths == {1, 5, 10, 14}

\* "a" and three double-width code points; seven times "a"
LongTexts == {<<97, 12354, 12354, 12354>>, Rep(97, 7)}

EntryTexts == LongTexts \cup UNION {[1..n -> RenderAlphabet] : n \in 1..MaxEntryLen}
Entries == {Entry(role, text) : role \in {"user", "assistant"}, text \in EntryTexts}
ShortEntries == {e \in Entries : Len(e.text) = 1}
EntryLists ==
  {<<>>} \cup {<<e>> : e \in Entries} \cup {<<e, f>> : e \in Entries, f \in ShortEntries}

InitRender ==
  /\ AppInit(IdleWorld, 8, 45)
  /\ ExtractIdle
  /\ TextIdle
  /\ DirIdle
  /\ renderIn \in EntryLists
  /\ renderWidth \in RenderWidths
  /\ renderOut = NoCall

Renders(out) ==
  /\ renderOut' = out
  /\ UNCHANGED <<renderIn, renderWidth, appVars, extractVars, textVars, dirVars>>

BuildMarkdownCall ==
  /\ renderOut = NoCall
  /\ Renders([op |-> "buildMarkdown", markdown |-> buildMarkdown(renderIn)])

BuildBoxRowsCall ==
  /\ renderOut = NoCall
  /\ Renders([op |-> "buildBoxRows", rows |-> buildBoxRows(renderIn, renderWidth)])

\* The rows App derives in a render mode (app.js 794-812): the rows built
\* for the mode, and the rows the wrap pass makes of them
Derived(mode, built, width) ==
  [op |-> "rows", mode |-> mode, built |-> built, rows |-> wrapRows(built, width)]

DerivedRowsCall(mode) ==
  /\ renderOut = NoCall
  /\ Renders(Derived(mode,
                     IF mode = "markdown"
                       THEN buildMarkdownRows(buildMarkdown(renderIn))
                       ELSE buildBoxRows(renderIn, renderWidth),
                     renderWidth))

NextRender ==
  \/ BuildMarkdownCall
  \/ BuildBoxRowsCall
  \/ \E mode \in {"pretty", "markdown"} : DerivedRowsCall(mode)

SpecRender == InitRender /\ [][NextRender]_vars

(***************************************************************************)
(* Properties.                                                             *)
(***************************************************************************)
Clamp(x, lo, hi) == Max(lo, Min(hi, x))

\* The keys that scroll the conversation pane
NavKeys ==
  {KeyK, KeyUp, KeyJ, KeyDown, KeyB, KeyF, KeyCtrlU, KeyCtrlD, KeyG, KeyShiftG}

\* The last render read the terminal's present size
RenderedSizeIsCurrent ==
  renderedRows = stdoutRows /\ renderedColumns = stdoutColumns

\* C1: in every reachable state the conversation pane's offset is at least 0
\* and at most max(0, totalRows - visibleCount), for the rows and the visible
\* count derived in the last render.
ScrollOffsetInRange ==
  /\ 0 <= rightScrollOffset
  /\ rightScrollOffset <= Max(0, rightTotalCount(Cells) - rightVisibleCount(Cells))

\* C1, its case: scrolled to the very end on the taller terminal, in the
\* Markdown mode
ScrolledToEndWitness ==
  /\ renderedRows = 14
  /\ viewMode = "markdown"
  /\ rightScrollOffset > 0
  /\ rightScrollOffset = rightTotalCount(Cells) - rightVisibleCount(Cells)

\* The entries the extractor gives for the log of the selected session
SelectedEntries == extractConversation(FileAt(selectedSession.path).log).entries

ConversationOfSelected ==
  \/ conversation = <<>>
  \/ selectedSession # Null /\ conversation = SelectedEntries

\* C2: the conversation held is empty or the extraction result of the
\* selected session, in every state; and the completion of a task that was
\* cancelled (its session is no longer the one selected) applies nothing:
\* neither entries, nor an error, nor the end of loading, nor an offset.
StaleResultsDiscarded ==
  /\ []ConversationOfSelected
  /\ [][\A task \in tasks, ioFails \in BOOLEAN :
          (task.cancelled /\ ExtractionDone(task, ioFails))
            => UNCHANGED <<conversation, conversationError, loadingConversation,
                           rightScrollOffset>>]_vars

\* C2, its case: the selected session's conversation is loaded while the
\* task of a session selected before it, with other entries, is in flight
StaleTaskInFlightWitness ==
  /\ selectedSession # Null
  /\ conversation # <<>>
  /\ \E task \in tasks :
       /\ task.cancelled
       /\ task.path # selectedSession.path
       /\ extractConversation(FileAt(task.path).log).entries \notin {<<>>, conversation}

\* C3, as claimed: once the scan of an unreadable root has ended, the session
\* pane is in the load-error state.
UnreadableRootIsLoadError ==
  (~env.fs.readable /\ scan.pc = "done" /\ proc = "running")
    => (sessionsError # "" /\ ~loadingSessions)

\* The descriptors of all the log files of the sessions directory
AllDescriptors ==
  LET found == findJsonlFiles(env.fs, DEFAULT_SESSIONS_DIR)
  IN {BuildSession(found[i], DEFAULT_SESSIONS_DIR) : i \in 1..Len(found)}

CompleteSortedList ==
  /\ {sessions[i] : i \in 1..Len(sessions)} = AllDescriptors
  /\ Len(sessions) = Len(findJsonlFiles(env.fs, DEFAULT_SESSIONS_DIR))
  /\ \A i, j \in 1..Len(sessions) :
       i < j => CompareSessions(sessions[i], sessions[j]) <= 0

\* C4: the session list is the empty initial list or the complete list of
\* the descriptors of all log files, in the comparator's order; and it
\* changes only when the scan ends, from the empty list.
SessionsPublishedWhole ==
  /\ [](sessions = <<>> \/ CompleteSortedList)
  /\ [][sessions' # sessions
          => sessions = <<>> /\ scan.pc = "meta" /\ scan'.pc = "done"]_vars

\* C4, its case: three sessions published, which the scan found in another
\* order
PublishedWitness ==
  /\ scan.pc = "done"
  /\ Len(sessions) = 3
  /\ sessions[1].path # scan.files[1].path

\* C5, as claimed: the selected index is never negative and never beyond the
\* last session.
SelectedIndexInRange ==
  /\ selectedIndex >= 0
  /\ selectedIndex <= Max(0, Len(sessions) - 1)

\* C6: with a non-empty list the selection is inside the window of the list
\* pane and the window inside the list; and a selection that leaves the
\* window moves the offset to the nearest edge: to the selection when it is
\* above, to selection - visibleCount + 1 when it is below.
SelectionKeptVisible ==
  /\ [](Len(sessions) > 0 =>
          /\ scrollOffset <= selectedIndex
          /\ selectedIndex < scrollOffset + baseVisibleCount(Cells)
          /\ 0 <= scrollOffset
          /\ scrollOffset <= Max(0, Len(sessions) - baseVisibleCount(Cells)))
  /\ [][Len(sessions') > 0 =>
          /\ selectedIndex' < scrollOffset => scrollOffset' = selectedIndex'
          /\ selectedIndex' >= scrollOffset + baseVisibleCount(Cells)'
               => scrollOffset' = selectedIndex' - baseVisibleCount(Cells)' + 1]_vars

\* C6, its case: the selection went below a window of two rows, which
\* followed it
WindowFollowedWitness ==
  /\ Len(sessions) = 3
  /\ baseVisibleCount(Cells) = 2
  /\ selectedIndex = 2
  /\ scrollOffset = 1

\* Math.ceil(n / 2), by its definition
HalfRoundedUp(n) == CHOOSE h \in 0..n : 2 * h >= n /\ 2 * (h - 1) < n

\* The offset a key of the conversation pane asks for
NavTarget(key, prev, visibleCount, totalRows) ==
  LET maxOffset == Max(0, totalRows - visibleCount)
  IN CASE key \in {KeyK, KeyUp} -> Clamp(prev - 1, 0, maxOffset)
       [] key \in {KeyJ, KeyDown} -> Clamp(prev + 1, 0, maxOffset)
       [] key = KeyB -> Clamp(prev - visibleCount, 0, maxOffset)
       [] key = KeyF -> Clamp(prev + visibleCount, 0, maxOffset)
       [] key = KeyCtrlU -> Clamp(prev - HalfRoundedUp(visibleCount), 0, maxOffset)
       [] key = KeyCtrlD -> Clamp(prev + HalfRoundedUp(visibleCount), 0, maxOffset)
       [] key = KeyG -> 0
       [] key = KeyShiftG -> maxOffset

\* The example of C7 on the handler: 10 rows and 4 visible give a last
\* offset of 6, where a page down from 5 lands, and a page up from 2 lands
\* on 0
ClampExample ==
  LET at(offset) == [rightScrollOffset |-> offset]
      maxOffset == Max(0, 10 - 4)
  IN /\ RightPaneKeyWith(at(0), KeyShiftG, maxOffset, 4).s.rightScrollOffset = 6
     /\ RightPaneKeyWith(at(5), KeyF, maxOffset, 4).s.rightScrollOffset = 6
     /\ RightPaneKeyWith(at(2), KeyB, maxOffset, 4).s.rightScrollOffset = 0

\* C7: with the right pane focused, a navigation key makes the handler set
\* the offset to clamp(prev + d, 0, maxOffset) (d = -1/+1 for k/j and the
\* arrows, -/+ visibleCount for b/f, -/+ ceil(visibleCount / 2) for
\* Ctrl+u/Ctrl+d), to 0 for g and to maxOffset for G; that is the offset
\* after the key press when the render it causes finds the terminal as the
\* last render did.
RightPaneNavigation ==
  /\ []ClampExample
  /\ [][\A key \in NavKeys :
          (focus = "right" /\ ~exporting /\ KeyPress(key))
            => LET target == NavTarget(key, rightScrollOffset,
                                       rightVisibleCount(Cells), rightTotalCount(Cells))
               IN /\ useInput(Cells, key).rightScrollOffset = target
                  /\ RenderedSizeIsCurrent => rightScrollOffset' = target]_vars

\* C7, its case: the right pane focused and scrolled by more than a page of
\* two rows, short of the end
ScrolledMidwayWitness ==
  /\ focus = "right"
  /\ rightVisibleCount(Cells) = 2
  /\ rightScrollOffset > 2
  /\ rightScrollOffset < maxRightOffset(Cells)

\* C8: a step that changes the selected session or the render mode leaves
\* the conversation pane's offset at 0.
SessionOrModeChangeResets ==
  [][(selectedSession' # selectedSession \/ viewMode' # viewMode)
       => rightScrollOffset' = 0]_vars

\* C8, its case: the Markdown mode was switched to, and the pane scrolled in
\* it, so that the next switch finds an offset to reset
ScrolledInMarkdownWitness ==
  /\ viewMode = "markdown"
  /\ focus = "right"
  /\ rightScrollOffset > 0
  /\ rightScrollOffset < maxRightOffset(Cells)

\* A step in which the conversation pane's visible row count or content
\* width changes while the session, the mode and the conversation stay, and
\* which is not itself a scroll of the pane
SizeStep ==
  /\ selectedSession' = selectedSession
  /\ viewMode' = viewMode
  /\ conversation' = conversation
  /\ \/ rightVisibleCount(Cells)' # rightVisibleCount(Cells)
     \/ rightContentWidth(Cells)' # rightContentWidth(Cells)
  /\ ~(focus = "right" /\ ~exporting /\ \E key \in NavKeys : KeyPress(key))

\* C9, as claimed: when the visible row count or the content width changes,
\* the offset becomes min(previous offset, new maxOffset).
SizeChangeReclampsOnly ==
  [][SizeStep => rightScrollOffset' = Min(rightScrollOffset, maxRightOffset(Cells)')]_vars

\* C9, amended: when the content width changes the offset becomes 0; when
\* the visible row count alone changes it becomes
\* min(previous offset, new maxOffset).
SizeChangeReclampsOrResets ==
  [][SizeStep =>
       rightScrollOffset' = IF rightContentWidth(Cells)' # rightContentWidth(Cells)
                              THEN 0
                              ELSE Min(rightScrollOffset, maxRightOffset(Cells)')]_vars

\* C9, its case: on the taller terminal, at the width of the start, the
\* pretty rows scrolled to their end
TallerTerminalWitness ==
  /\ renderedRows = 14
  /\ renderedColumns = 45
  /\ viewMode = "pretty"
  /\ rightScrollOffset > 0
  /\ rightScrollOffset = maxRightOffset(Cells)

\* Whether a candidate of a record qualifies for its stream
Qualifies(cand) == cand.role # "none" /\ ~shouldExcludeText(cand.text)

RECURSIVE PrimaryStream(_)
\* The entries of the qualifying event messages of a log, in its order
PrimaryStream(log) ==
  IF log = <<>> THEN <<>>
  ELSE (IF Head(log).k = "json" /\ Qualifies(EventCandidate(Head(log).v))
          THEN <<Entry(EventCandidate(Head(log).v).role,
                       EventCandidate(Head(log).v).text.s)>>
          ELSE <<>>)
       \o PrimaryStream(Tail(log))

RECURSIVE FallbackStream(_)
\* The entries of the qualifying response items of a log, in its order
FallbackStream(log) ==
  IF log = <<>> THEN <<>>
  ELSE (IF Head(log).k = "json" /\ Qualifies(FallbackCandidate(Head(log).v))
          THEN <<Entry(FallbackCandidate(Head(log).v).role,
                       FallbackCandidate(Head(log).v).text.s)>>
          ELSE <<>>)
       \o FallbackStream(Tail(log))

\* C10: what extractConversation returns for a log is the primary stream
\* when that stream has an entry, and the fallback stream otherwise.
ExtractionAllOrNothing ==
  (extractOut.done /\ extractOut.ok)
    => extractOut.entries = IF PrimaryStream(extractLog) # <<>>
                              THEN PrimaryStream(extractLog)
                              ELSE FallbackStream(extractLog)

\* C10, its case: a log with entries in both streams has been extracted
BothStreamsWitness ==
  /\ extractOut.done /\ extractOut.ok
  /\ PrimaryStream(extractLog) # <<>>
  /\ FallbackStream(extractLog) # <<>>

\* The text left when the leading white space of a text is taken away
StripLeading(text) ==
  LET inked == {i \in 1..Len(text) : text[i] \notin WhiteSpace}
      first == IF inked = {} THEN Len(text) + 1
               ELSE CHOOSE i \in inked : \A j \in inked : i <= j
  IN SubSeq(text, first, Len(text))

Sentinels == {EXCLUDE_PREFIXES[i] : i \in 1..Len(EXCLUDE_PREFIXES)}

\* A final text that is not empty and does not begin with a sentinel
KeptText(text) ==
  /\ text # <<>>
  /\ \A p \in Sentinels :
       ~(Len(StripLeading(text)) >= Len(p)
         /\ \A i \in 1..Len(p) : StripLeading(text)[i] = p[i])

CandidateOf(stream, parsed) ==
  IF stream = "eventMessages" THEN EventCandidate(parsed) ELSE FallbackCandidate(parsed)

RECURSIVE KeptCandidates(_, _, _)
\* The candidate entries of the first n lines of a log for a stream that
\* have a kept text, in the order of the lines
KeptCandidates(log, n, stream) ==
  IF n = 0 THEN <<>>
  ELSE KeptCandidates(log, n - 1, stream)
       \o (IF log[n].k = "json"
              /\ CandidateOf(stream, log[n].v).role # "none"
              /\ CandidateOf(stream, log[n].v).text.t = "str"
              /\ KeptText(CandidateOf(stream, log[n].v).text.s)
             THEN <<Entry(CandidateOf(stream, log[n].v).role,
                          CandidateOf(stream, log[n].v).text.s)>>
             ELSE <<>>)

\* C11: as long as the extraction has not failed, each of its two streams
\* is the sequence, in file order, of the candidate entries of the lines
\* read so far whose text is non-empty and does not begin, after its leading
\* white space, with one of the four sentinel prefixes.
StreamsAreKeptCandidates ==
  ~extractAcc.threw =>
    \A stream \in {"eventMessages", "fallbackMessages"} :
      extractAcc[stream] = KeptCandidates(extractLog, extractPos - 1, stream)

\* C11, its case: a candidate excluded after its leading white space was
\* dropped from between two kept entries
DroppedBetweenKeptWitness ==
  /\ ~extractAcc.threw
  /\ extractPos = 4
  /\ extractLog[2] = UserMessage(<<SP, LF>> \o EXCLUDE_PREFIXES[1])
  /\ Len(extractAcc.eventMessages) = 2

\* A line that is blank or does not parse as a record
IsNoise(line) == line \in {BlankLine, BadLine, JsonLine(Null)}
IsRecordLine(line) == ~IsNoise(line)

\* C12: the outcome of extractConversation on a log, failure included, is
\* its outcome on the log without its blank lines and its lines that do not
\* parse as a record.
NoiseLinesChangeNothing ==
  extractOut.done =>
    [ok |-> extractOut.ok, entries |-> extractOut.entries]
      = extractConversation(SelectSeq(extractLog, IsRecordLine))

\* C12, its case: a log with a blank or unparseable line between two
\* records has been extracted into two entries
NoiseBetweenRecordsWitness ==
  /\ extractOut.done /\ extractOut.ok
  /\ Len(extractLog) = 3
  /\ IsRecordLine(extractLog[1]) /\ IsNoise(extractLog[2]) /\ IsRecordLine(extractLog[3])
  /\ Len(extractOut.entries) = 2

\* "[image n]"
ImageToken(n) == <<91, 105, 109, 97, 103, 101, 32>> \o Digits(n) \o <<93>>

RECURSIVE ImageTokens(_)
\* "[image 1]" to "[image k]", one per line
ImageTokens(k) ==
  IF k = 1 THEN ImageToken(1) ELSE ImageTokens(k - 1) \o <<LF>> \o ImageToken(k)

\* A message body followed by k placeholders, after a blank line when the
\* body is not empty
WithAttachments(body, k) ==
  IF body = <<>> THEN ImageTokens(k) ELSE body \o <<LF, LF>> \o ImageTokens(k)

\* "[image 1]\n[image 2]"
TwoImagesExample ==
  WithAttachments(<<>>, 2)
    = <<91, 105, 109, 97, 103, 101, 32, 49, 93, 10,
        91, 105, 109, 97, 103, 101, 32, 50, 93>>

\* The payload of the record on a line, its body and its attachments
PayloadOf(line) == Get(line.v, "payload")
BodyOf(line) ==
  IF Get(PayloadOf(line), "message").t = "str" THEN Get(PayloadOf(line), "message").s
  ELSE <<>>
SequenceLen(v) == IF v.t = "arr" THEN Len(v.a) ELSE 0
AttachmentCount(line) ==
  SequenceLen(Get(PayloadOf(line), "images"))
    + SequenceLen(Get(PayloadOf(line), "local_images"))

\* The line is a message event of one of the given types whose message is
\* a string or is absent
IsMessageEvent(line, types) ==
  /\ line.k = "json"
  /\ Get(line.v, "type") = Str(S_event_msg)
  /\ \E type \in types : Get(PayloadOf(line), "type") = Str(type)
  /\ Get(PayloadOf(line), "message").t \in {"str", "undef"}

\* The primary stream after an entry with a kept text, or none, is added
PrimaryGains(role, text) ==
  extractAcc'.eventMessages =
    IF KeptText(text) THEN Append(extractAcc.eventMessages, Entry(role, text))
    ELSE extractAcc.eventMessages

\* C13: the entry of a user_message with k >= 1 attachments over images and
\* local_images has the message body, then "[image 1]" to "[image k]" one
\* per line, after one blank line when the body is not empty and directly
\* when it is empty (two images and no body give "[image 1]\n[image 2]");
\* the entry of an agent or assistant message has the message text as it is.
AttachmentsAppended ==
  /\ []TwoImagesExample
  /\ [][/\ (ExtractStep /\ IsMessageEvent(extractLog[extractPos], {S_user_message})
                        /\ AttachmentCount(extractLog[extractPos]) >= 1)
           => PrimaryGains("user", WithAttachments(BodyOf(extractLog[extractPos]),
                                                   AttachmentCount(extractLog[extractPos])))
        /\ (ExtractStep /\ IsMessageEvent(extractLog[extractPos],
                                          {S_agent_message, S_assistant_message}))
           => PrimaryGains("assistant", BodyOf(extractLog[extractPos]))]_vars

\* C13, its case: the primary stream holds the entry of a user message with
\* a body and two attachments, and that of an agent message with an image
AttachmentsWitness ==
  /\ ~extractAcc.threw
  /\ Len(extractAcc.eventMessages) = 2
  /\ extractAcc.eventMessages[1] = Entry("user", WithAttachments(<<118>>, 2))
  /\ extractAcc.eventMessages[2] = Entry("assistant", <<97>>)

\* A content part tagged input_text or output_text whose text is not empty
\* (nor absent, null or zero)
IsTextPart(part) ==
  /\ Get(part, "type") \in {Str(S_input_text), Str(S_output_text)}
  /\ Truthy(Get(part, "text"))

RECURSIVE JoinedPartTexts(_, _)
\* The texts of the text parts among the first n parts, one per line; a
\* text that is no string counts as the string it converts to
JoinedPartTexts(parts, n) ==
  IF n = 0 THEN <<>>
  ELSE IF ~IsTextPart(parts[n]) THEN JoinedPartTexts(parts, n - 1)
  ELSE IF JoinedPartTexts(parts, n - 1) = <<>> THEN JsString(Get(parts[n], "text"))
  ELSE JoinedPartTexts(parts, n - 1) \o <<LF>> \o JsString(Get(parts[n], "text"))

\* The line is a response_item record of type message with a content array
IsMessageItem(line) ==
  /\ line.k = "json"
  /\ Get(line.v, "type") = Str(S_response_item)
  /\ Get(PayloadOf(line), "type") = Str(S_message)
  /\ Get(PayloadOf(line), "content").t = "arr"

RoleOf(line) ==
  IF Get(PayloadOf(line), "role") = Str(S_user) THEN "user"
  ELSE IF Get(PayloadOf(line), "role") = Str(S_assistant) THEN "assistant"
  ELSE "none"

\* The fallback stream after an entry with a kept text, or none, is added
FallbackGains(role, text) ==
  extractAcc'.fallbackMessages =
    IF role # "none" /\ KeptText(text)
      THEN Append(extractAcc.fallbackMessages, Entry(role, text))
      ELSE extractAcc.fallbackMessages

\* C14: a response_item of type message and of role user or assistant gives
\* the fallback stream an entry whose text is the texts of its content parts
\* of type input_text or output_text with a non-empty text, in array order
\* and one per line; a record of another role or without such a part gives
\* it no entry.
FallbackTextJoinsParts ==
  [][(ExtractStep /\ IsMessageItem(extractLog[extractPos]))
       => FallbackGains(RoleOf(extractLog[extractPos]),
                        JoinedPartTexts(Get(PayloadOf(extractLog[extractPos]), "content").a,
                                        Len(Get(PayloadOf(extractLog[extractPos]), "content").a)))]_vars

\* C14, its case: after a record of another role and one without parts,
\* the record of an assistant with four parts gave the text "q\nr"
JoinedPartsWitness ==
  /\ ~extractAcc.threw
  /\ extractPos = 4
  /\ IsMessageItem(extractLog[1]) /\ RoleOf(extractLog[1]) = "none"
  /\ extractLog[2] = ResponseItem(S_user, <<>>)
  /\ extractAcc.fallbackMessages = <<Entry("assistant", <<113, LF, 114>>)>>

\* The display width of a text by the width rule: nothing for a code point
\* up to 0x1F, one for 0x20 to 0x7F, two for any other
RuleWidth(text) ==
  Cardinality({i \in 1..Len(text) : text[i] >= 32 /\ text[i] <= 127})
    + 2 * Cardinality({i \in 1..Len(text) : text[i] > 127})

\* C15: at a width w >= 1 every line wrapText returns has a display width
\* of at most w, unless it is one code point that is wider than w.
WrappedLinesFit ==
  (textOut.op = "wrapText" /\ textBudget >= 1) =>
    \A i \in 1..Len(textOut.lines) :
      \/ RuleWidth(textOut.lines[i]) <= textBudget
      \/ Len(textOut.lines[i]) = 1 /\ RuleWidth(textOut.lines[i]) > textBudget

\* C15, its case: at width 3, "a", a tab and a double-width letter were
\* wrapped into a full line and a second line
FullLineWitness ==
  /\ textOut.op = "wrapText" /\ textBudget = 3
  /\ textIn = <<97, TAB, 12354>>
  /\ textOut.lines = << <<97, SP, SP>>, <<12354>> >>

\* C16: at a width w >= 1, wrapping the rejoined lines of a wrapText call
\* again gives the same lines, and wrapping the rows of a wrapRows call
\* again gives the same rows.
WrappingIsIdempotent ==
  textBudget >= 1 =>
    /\ textOut.op = "wrapTextAgain" => textOut.again = textOut.lines
    /\ textOut.op = "wrapRowsAgain" => textOut.again = textOut.rows

\* C17 as stated: wrapText returns at least one line at any width, and for
\* the empty text the one line " ".
EmptyTextGivesPlaceholder ==
  textOut.op = "wrapText" =>
    /\ Len(textOut.lines) >= 1
    /\ textIn = <<>> => textOut.lines = << <<SP>> >>

\* C17, amended: wrapText returns at least one line at any width; for the
\* empty text it returns the one line " " at a width w >= 1 and one empty
\* line at a width w <= 0.
EmptyTextGivesOneLine ==
  textOut.op = "wrapText" =>
    /\ Len(textOut.lines) >= 1
    /\ textIn = <<>> =>
         textOut.lines = IF textBudget >= 1 THEN << <<SP>> >> ELSE << <<>> >>

\* C17, its case: the empty text was wrapped at width 2
EmptyTextWrappedWitness ==
  /\ textOut.op = "wrapText"
  /\ textIn = <<>> /\ textBudget = 2
  /\ textOut.lines = << <<SP>> >>

RECURSIVE TabsExpanded(_)
\* A text with each tab replaced by two spaces and without carriage returns
TabsExpanded(text) ==
  IF text = <<>> THEN <<>>
  ELSE (IF Head(text) = TAB THEN <<SP, SP>>
        ELSE IF Head(text) = CR THEN <<>>
        ELSE <<Head(text)>>)
       \o TabsExpanded(Tail(text))

\* C18: at a width w >= 1, wrapText returns for a text what it returns for
\* the text with each tab replaced by two spaces and without its carriage
\* returns.
TabIsTwoSpaces ==
  (textOut.op = "wrapText" /\ textBudget >= 1) =>
    textOut.lines = wrapText(TabsExpanded(textIn), textBudget)

\* C19: stringWidth of a text is the sum over its code points of 0 up to
\* 0x1F, 1 from 0x20 to 0x7F and 2 above.
StringWidthIsRuleSum ==
  textOut.op = "stringWidth" => textOut.width = RuleWidth(textIn)

\* C19, its case: the width of a text with a code point of each class, the
\* last of the single-width ones (0x7F) included
EveryClassWitness ==
  /\ textOut.op = "stringWidth"
  /\ textIn = <<31, 127, 128>>
  /\ textOut.width = 3

RECURSIVE WidthPrefix(_, _)
\* The longest prefix of a text that is at most n width-units wide
WidthPrefix(text, n) ==
  IF text = <<>> \/ RuleWidth(<<Head(text)>>) > n THEN <<>>
  ELSE <<Head(text)>> \o WidthPrefix(Tail(text), n - RuleWidth(<<Head(text)>>))

\* C20: truncateLabel returns a label that fits the budget unchanged; of
\* one that does not, its first budget-3 width-units followed by "..." when
\* the budget is above 3 and its first width-units up to the budget
\* otherwise; the result is never wider than the budget.
TruncatedLabelFits ==
  textOut.op = "truncateLabel" =>
    /\ RuleWidth(textOut.label) <= textBudget
    /\ textOut.label =
         IF RuleWidth(textIn) <= textBudget THEN textIn
         ELSE IF textBudget > 3 THEN WidthPrefix(textIn, textBudget - 3) \o Ellipsis
         ELSE WidthPrefix(textIn, textBudget)

(***************************************************************************)
(* The session scan: order, descriptors and their sources.                 *)
(***************************************************************************)
\* Label x is at most label y in the ascending order of labels
LabelAtMost(x, y) ==
  \E k \in 0..Len(x) :
    /\ k <= Len(y)
    /\ \A i \in 1..k : x[i] = y[i]
    /\ k = Len(x) \/ (k < Len(y) /\ x[k + 1] < y[k + 1])

\* The files b, a and c, in the order found, the first two modified at
\* 5 ms and the last at 3 ms
ExampleDir ==
  <<FoundAs(NameB, FileOf(<<UserMessage(<<117>>)>>, 5)),
    FoundAs(NameA, FileOf(<<UserMessage(<<117>>)>>, 5)),
    FoundAs(NameC, FileOf(<<UserMessage(<<117>>)>>, 3))>>

LabelsOf(list) == [i \in 1..Len(list) |-> list[i].label]
SortKeysOf(list) == [i \in 1..Len(list) |-> list[i].sortKey]

\* C21: the published list is ordered by descending sortKey, descriptors
\* of equal sortKey in ascending order of label; the descriptors of sortKeys
\* 5, 5, 3 and labels b, a, c are published in the order a, b, c.
PublishedInOrder ==
  dirOut.op = "scan" =>
    /\ \A i \in 1..(Len(dirOut.sessions) - 1) :
         \/ dirOut.sessions[i].sortKey > dirOut.sessions[i + 1].sortKey
         \/ /\ dirOut.sessions[i].sortKey = dirOut.sessions[i + 1].sortKey
            /\ LabelAtMost(dirOut.sessions[i].label, dirOut.sessions[i + 1].label)
    /\ dirIn = ExampleDir => LabelsOf(dirOut.sessions) = <<NameA, NameB, NameC>>

\* C21, its case: the three descriptors of the example have been published
ExamplePublishedWitness ==
  /\ dirOut.op = "scan"
  /\ dirIn = ExampleDir
  /\ SortKeysOf(dirOut.sessions) = <<5, 5, 3>>
  /\ Len(dirOut.sessions) = 3

\* C22: every comparator the source uses is transitive, also when some
\* sortKeys are 0: of three descriptors a, b, c, when a is ordered at or
\* before b and b at or before c, a is ordered at or before c.
ComparatorsAreTransitive ==
  dirOut.op = "compare" =>
    (dirOut.ab <= 0 /\ dirOut.bc <= 0 => dirOut.ac <= 0)

\* The name under which a file was found
NameOf(found) ==
  CHOOSE name \in FileNames \cup ListNames : FoundAs(name, found.file) = found

\* A found file has a metadata record: it can be read and its first line is
\* a JSON object of type session_meta
HasMeta(file) ==
  /\ file.readOk
  /\ Len(file.log) > 0
  /\ file.log[1].k = "json"
  /\ file.log[1].v.t = "obj"
  /\ "type" \in DOMAIN file.log[1].v.o
  /\ file.log[1].v.o.type = Str(S_session_meta)

\* A field of the metadata record, under payload or flat; null without it
MetaField(file, field) ==
  IF ~HasMeta(file) THEN Null
  ELSE IF /\ "payload" \in DOMAIN file.log[1].v.o
          /\ file.log[1].v.o.payload.t = "obj"
          /\ field \in DOMAIN file.log[1].v.o.payload.o
    THEN file.log[1].v.o.payload.o[field]
  ELSE IF field \in DOMAIN file.log[1].v.o THEN file.log[1].v.o[field]
  ELSE Null

\* The time the metadata timestamp denotes, when there is one and it parses
MetaTimeOf(file) ==
  IF MetaField(file, "timestamp").t = "str"
    THEN DateParse(MetaField(file, "timestamp").s)
    ELSE NaN

\* The time a name rollout-YYYY-MM-DDThh-mm-ss... denotes, when the name has
\* that pattern and the date is valid
RolloutTimeOf(name) ==
  IF RolloutAt(name, 1)
    THEN DateParse(SubSeq(name, 9, 19) \o SubSeq(name, 20, 21) \o <<58>>
                   \o SubSeq(name, 23, 24) \o <<58>> \o SubSeq(name, 26, 27) \o <<90>>)
    ELSE NaN

\* C23: a descriptor's sortKey is the file's modification time when fs.stat
\* gives one, otherwise the time of the metadata timestamp when it parses,
\* otherwise the time in the file's name, otherwise 0; a metadata timestamp
\* never overrides an available modification time.
SortKeyPrefersMtime ==
  dirOut.op = "describe" =>
    dirOut.session.sortKey =
      IF dirIn[1].file.statOk THEN dirIn[1].file.mtimeMs
      ELSE IF MetaTimeOf(dirIn[1].file).ok THEN MetaTimeOf(dirIn[1].file).ms
      ELSE IF RolloutTimeOf(NameOf(dirIn[1])).ok THEN RolloutTimeOf(NameOf(dirIn[1])).ms
      ELSE 0

\* C24: a descriptor's label is the formatted metadata timestamp when that
\* parses, otherwise the formatted time in the file's name whenever the name
\* has the rollout pattern with a valid date, otherwise the path relative to
\* the root.
LabelFromBestSource ==
  dirOut.op = "describe" =>
    dirOut.session.label =
      IF MetaTimeOf(dirIn[1].file).ok
        THEN formatLocalTimestamp(MetaTimeOf(dirIn[1].file).ms)
      ELSE IF RolloutTimeOf(NameOf(dirIn[1])).ok
        THEN formatLocalTimestamp(RolloutTimeOf(NameOf(dirIn[1])).ms)
      ELSE NameOf(dirIn[1])

\* Reading a file's first line fails, or the line is no JSON
ReadFails(file) == ~file.readOk \/ file.log[1].k = "bad"

\* The descriptors of a list for one path
DescriptorsFor(list, path) == {k \in 1..Len(list) : list[k].path = path}
DescriptorFor(list, path) == list[CHOOSE k \in DescriptorsFor(list, path) : TRUE]

\* The directory with its i-th file replaced by a healthy one
Healed(dir, i) == [dir EXCEPT ![i].file = HealthyFile]

\* C25: a failure to read or parse a file's first line, or a failed fs.stat,
\* never ends the scan: the scan finishes without an error with exactly one
\* descriptor for each log file found; the label and sortKey of a file whose
\* first line fails come from the file's name, its path and its modification
\* time, the sortKey of a file whose stat fails from its metadata or its
\* name, or is 0; and the descriptors of the other files are those of the
\* scan in which the failing file is healthy.
FailuresLeaveScanWhole ==
  dirOut.op = "scan" =>
    /\ dirOut.sessionsError = "" /\ ~dirOut.loadingSessions
    /\ Len(dirOut.sessions) = Len(dirIn)
    /\ \A i \in 1..Len(dirIn) :
         /\ Cardinality(DescriptorsFor(dirOut.sessions, dirIn[i].path)) = 1
         /\ ReadFails(dirIn[i].file) =>
              /\ DescriptorFor(dirOut.sessions, dirIn[i].path).label \in
                   {NameOf(dirIn[i]),
                    formatLocalTimestamp(RolloutTimeOf(NameOf(dirIn[i])).ms)}
              /\ DescriptorFor(dirOut.sessions, dirIn[i].path).sortKey \in
                   {IF dirIn[i].file.statOk THEN dirIn[i].file.mtimeMs ELSE 0,
                    RolloutTimeOf(NameOf(dirIn[i])).ms, 0}
         /\ ~dirIn[i].file.statOk =>
              DescriptorFor(dirOut.sessions, dirIn[i].path).sortKey \in
                {MetaTimeOf(dirIn[i].file).ms, RolloutTimeOf(NameOf(dirIn[i])).ms, 0}
         /\ (ReadFails(dirIn[i].file) \/ ~dirIn[i].file.statOk) =>
              \A j \in 1..Len(dirIn) : j # i =>
                DescriptorFor(dirOut.sessions, dirIn[j].path)
                  = DescriptorFor(ScanPublish(Cells, Healed(dirIn, i)).sessions,
                                  dirIn[j].path)

\* C25, its case: a scan of three files has finished, the first file with a
\* first line that is no JSON, the second one whose stat fails, the third
\* without a failure
FailingFilesScannedWitness ==
  /\ dirOut.op = "scan"
  /\ Len(dirIn) = 3 /\ Len(dirOut.sessions) = 3
  /\ dirIn[1].file = FileOf(<<BadLine>>, 5)
  /\ dirIn[2].file = [HealthyFile EXCEPT !.statOk = FALSE]
  /\ dirIn[3].file = FileOf(<<UserMessage(<<117>>)>>, 5)

\* C26: each metadata field is honoured under payload and flat alike: the
\* descriptor's id and git are those of the metadata record wherever they
\* stand, and the label is the formatted metadata timestamp when it parses.
FlatFieldsHonoured ==
  (dirOut.op = "describe" /\ HasMeta(dirIn[1].file)) =>
    /\ dirOut.session.id = MetaField(dirIn[1].file, "id")
    /\ dirOut.session.git = MetaField(dirIn[1].file, "git")
    /\ MetaTimeOf(dirIn[1].file).ok =>
         dirOut.session.label = formatLocalTimestamp(MetaTimeOf(dirIn[1].file).ms)

(***************************************************************************)
(* The renderers.                                                          *)
(***************************************************************************)
\* The header line of an entry: "### User" or "### Assistant"
HeaderLine(entry) ==
  IF entry.role = "user" THEN <<35, 35, 35, 32, 85, 115, 101, 114>>
  ELSE <<35, 35, 35, 32, 65, 115, 115, 105, 115, 116, 97, 110, 116>>

RECURSIVE HeadedEntries(_, _)
\* The first n entries, each as its header line followed by its text
\* verbatim, one blank line between two entries
HeadedEntries(entries, n) ==
  IF n = 0 THEN <<>>
  ELSE (IF n = 1 THEN <<>> ELSE HeadedEntries(entries, n - 1) \o <<LF, LF>>)
       \o HeaderLine(entries[n]) \o <<LF>> \o entries[n].text

\* A text ends in exactly one newline
EndsInOneNewline(text) ==
  /\ Len(text) >= 1
  /\ text[Len(text)] = LF
  /\ Len(text) >= 2 => text[Len(text) - 1] # LF

\* C27: for every entry list, the empty one included, buildMarkdown emits
\* per entry its header line followed by its text verbatim, one blank line
\* between two entries, and the output ends in exactly one newline, also
\* when an entry's text ends with a newline.
MarkdownEndsInOneNewline ==
  renderOut.op = "buildMarkdown" =>
    /\ SubSeq(renderOut.markdown, 1, Len(renderOut.markdown) - 1)
         = HeadedEntries(renderIn, Len(renderIn))
    /\ EndsInOneNewline(renderOut.markdown)

\* The number of physical lines of a text, and of its empty ones
PhysicalLines(text) == 1 + Cardinality({i \in 1..Len(text) : text[i] = LF})
EmptyPhysicalLines(text) ==
  Cardinality({i \in 0..Len(text) : /\ i = 0 \/ text[i] = LF
                                    /\ i = Len(text) \/ text[i + 1] = LF})

\* The rows at which a block starts and ends: the rows that are no spacer
\* and follow, or precede, a spacer or nothing
BlockStarts(rows) ==
  {i \in 1..Len(rows) : rows[i].type # "spacer" /\ (i = 1 \/ rows[i - 1].type = "spacer")}
BlockEnds(rows) ==
  {i \in 1..Len(rows) : rows[i].type # "spacer"
                         /\ (i = Len(rows) \/ rows[i + 1].type = "spacer")}

\* The k-th smallest member of a set of row numbers
Kth(set, k) == CHOOSE i \in set : Cardinality({j \in set : j <= i}) = k

\* The tag of a role in a top border
RoleTag(role) ==
  IF role = "user" THEN <<32, 85, 115, 101, 114, 32>>
  ELSE <<32, 65, 115, 115, 105, 115, 116, 97, 110, 116, 32>>

\* A top border carries the tag of the role after its corner, as far as the
\* border has room for it
CarriesLabel(text, role) ==
  /\ Len(text) >= 2 /\ text[1] = 43 /\ text[Len(text)] = 43
  /\ \A i \in 1..Len(RoleTag(role)) : i + 1 < Len(text) => text[i + 1] = RoleTag(role)[i]

IsBottomBorder(text) ==
  /\ Len(text) >= 2 /\ text[1] = 43 /\ text[Len(text)] = 43
  /\ \A i \in 2..(Len(text) - 1) : text[i] = 45

\* A box-text row without content
IsBlankBoxText(text) ==
  /\ Len(text) >= 2 /\ text[1] = 124 /\ text[Len(text)] = 124
  /\ \A i \in 2..(Len(text) - 1) : text[i] = SP

\* The rows from..to are the block of an entry
IsBlockOf(rows, from, to, entry) ==
  /\ from < to
  /\ rows[from].type = "box-border" /\ rows[from].role = entry.role
  /\ CarriesLabel(rows[from].text, entry.role)
  /\ rows[to].type = "box-border" /\ rows[to].role = entry.role
  /\ IsBottomBorder(rows[to].text)
  /\ \A i \in (from + 1)..(to - 1) :
       rows[i].type = "box-text" /\ rows[i].role = entry.role
  /\ to - from - 1 >= PhysicalLines(entry.text)
  /\ Cardinality({i \in (from + 1)..(to - 1) : IsBlankBoxText(rows[i].text)})
       = EmptyPhysicalLines(entry.text)

\* The spacer rows stand in pairs between two blocks
SpacersInPairs(rows) ==
  \A i \in 1..Len(rows) : rows[i].type = "spacer" =>
    /\ i > 1 /\ i < Len(rows)
    /\ (rows[i - 1].type = "spacer") # (rows[i + 1].type = "spacer")

\* C30: for one or more entries pretty mode emits, for each entry in order,
\* one top border with the role label, at least one box-text row for each
\* physical line of the text, exactly one blank box-text row for each empty
\* physical line, and one bottom border; two blocks are separated by exactly
\* two spacer rows and the row list never ends with a spacer row.
BoxRowsAreBlocks ==
  (renderOut.op = "buildBoxRows" /\ Len(renderIn) >= 1) =>
    /\ renderOut.rows[Len(renderOut.rows)].type # "spacer"
    /\ SpacersInPairs(renderOut.rows)
    /\ Cardinality(BlockStarts(renderOut.rows)) = Len(renderIn)
    /\ Cardinality(BlockEnds(renderOut.rows)) = Len(renderIn)
    /\ \A k \in 1..Len(renderIn) :
         IsBlockOf(renderOut.rows, Kth(BlockStarts(renderOut.rows), k),
                   Kth(BlockEnds(renderOut.rows), k), renderIn[k])

\* C30, its case: the blocks of two entries of different roles, the first
\* with an empty physical line before its only other line
TwoBlocksWitness ==
  /\ renderOut.op = "buildBoxRows"
  /\ renderIn = <<Entry("user", <<LF, 97>>), Entry("assistant", <<97>>)>>
  /\ renderWidth = 10
  /\ Len(renderOut.rows) = 9

(***************************************************************************)
(* The export.                                                             *)
(***************************************************************************)
\* The Markdown rendering of the complete conversation of a session's log
WholeMarkdown(session) ==
  buildMarkdown(extractConversation(FileAt(session.path).log).entries)

\* C28: every confirmed export of a selected session whose extraction has
\* not failed writes the Markdown rendering of the session's complete
\* conversation, in either render mode, also when Enter is pressed while
\* the extraction is still in flight.
ExportWritesWholeConversation ==
  [][(Len(writes') > Len(writes)
        /\ selectedSession # Null /\ conversationError = "") =>
       writes'[Len(writes')].markdown = WholeMarkdown(selectedSession)]_vars

TopBorderHyphens(text, role) ==
  Len(text) - 2 - Min(Len(RoleTag(role)), Len(text) - 2)

\* C31: at every content width, those smaller than the role label included,
\* a block's top border is its corner, the tag of the role cut to the room
\* the border has, a number >= 0 of hyphens and nothing else up to the
\* closing corner, and it is as wide as the block's bottom border.
TopBorderMatchesBottom ==
  (renderOut.op = "buildBoxRows" /\ Len(renderIn) >= 1) =>
    \A k \in 1..Cardinality(BlockStarts(renderOut.rows)) :
      /\ CarriesLabel(renderOut.rows[Kth(BlockStarts(renderOut.rows), k)].text,
                      renderIn[k].role)
      /\ TopBorderHyphens(renderOut.rows[Kth(BlockStarts(renderOut.rows), k)].text,
                          renderIn[k].role) >= 0
      /\ \A i \in 1..Len(renderOut.rows[Kth(BlockStarts(renderOut.rows), k)].text) :
           (i > 1 + Len(RoleTag(renderIn[k].role))
              /\ i < Len(renderOut.rows[Kth(BlockStarts(renderOut.rows), k)].text))
           => renderOut.rows[Kth(BlockStarts(renderOut.rows), k)].text[i] = 45
      /\ RuleWidth(renderOut.rows[Kth(BlockStarts(renderOut.rows), k)].text)
           = RuleWidth(renderOut.rows[Kth(BlockEnds(renderOut.rows), k)].text)

\* C31, its case: at content width 1 the top border of an assistant's block
\* has room for " As" alone and no hyphen
NarrowBorderWitness ==
  /\ renderOut.op = "buildBoxRows"
  /\ renderWidth = 1
  /\ Len(renderIn) = 1 /\ renderIn[1].role = "assistant"
  /\ renderOut.rows[1].text = <<43, 32, 65, 115, 43>>

(***************************************************************************)
(* The conversation pane and the keys.                                     *)
(***************************************************************************)
\* The last render has read the terminal's size: no resize awaits a render
SizeIsRendered == renderedRows = stdoutRows /\ renderedColumns = stdoutColumns

\* The extraction of a task fails: reading fails or the extractor throws
ExtractionFails(task, ioFails) ==
  /\ proc = "running" /\ ~task.cancelled
  /\ ioFails \/ ~extractConversation(FileAt(task.path).log).ok
  /\ ExtractionDone(task, ioFails)

\* C32: when the extraction of the selected session fails, the conversation
\* error is set, the loading flag is cleared and the entries are empty,
\* while the session list, the selected index, the list offset and the
\* session-list error are unchanged; selecting another session clears the
\* conversation error.
ExtractionFailureLeavesListAlone ==
  [][/\ \A task \in tasks, ioFails \in BOOLEAN : ExtractionFails(task, ioFails) =>
          /\ conversationError' # "" /\ ~loadingConversation'
          /\ conversation' = <<>>
          /\ UNCHANGED <<sessions, selectedIndex, selectedSession, scrollOffset,
                         sessionsError, loadingSessions>>
     /\ (selectedSession' # selectedSession /\ selectedSession' # Null) =>
          conversationError' = ""
    ]_vars

\* C32, amended: as above, but the list offset is unchanged only on a
\* terminal whose size the last render has read; after a resize the render
\* the failure causes is the first to read the new size, and the list
\* offset follows the selection at that size.
ExtractionFailureIsPaneLocal ==
  [][/\ \A task \in tasks, ioFails \in BOOLEAN : ExtractionFails(task, ioFails) =>
          /\ conversationError' # "" /\ ~loadingConversation'
          /\ conversation' = <<>>
          /\ UNCHANGED <<sessions, selectedIndex, selectedSession,
                         sessionsError, loadingSessions>>
          /\ SizeIsRendered => UNCHANGED scrollOffset
     /\ (selectedSession' # selectedSession /\ selectedSession' # Null) =>
          conversationError' = ""
    ]_vars

\* C32, its case: the extraction of the second session of the list has
\* failed
FailedExtractionWitness ==
  /\ proc = "running"
  /\ conversationError # "" /\ ~loadingConversation
  /\ Len(sessions) = 3 /\ selectedIndex = 1

ExportKeyWithoutSessionIsSafe ==
  [][(~exporting /\ selectedSession = Null /\ KeyPress(KeyE)) =>
       /\ proc' = "running"
       /\ exporting' \/ UNCHANGED <<exporting, exportPath, status>>]_vars

\* C35: at most one export write is in flight at a time: a key press that
\* arrives before a started write completes starts no second write.
AtMostOneWriteInFlight ==
  Len(writes) <= 1

\* The extraction of the session selected last is in flight
SelectedExtractionInFlight ==
  \E task \in tasks : ~task.cancelled /\ selectedSession # Null
                      /\ task.path = selectedSession.path

\* C36: while the app runs the loading flag is set exactly while the
\* extraction of the session selected last is in flight: its completion,
\* with entries or with an error, clears the flag, which then stays clear,
\* and the completion of a cancelled earlier extraction leaves the flag set
\* while the extraction of the selected session is in flight.
LoadingFlagFollowsSelectedExtraction ==
  /\ [](proc = "running" => (loadingConversation <=> SelectedExtractionInFlight))
  /\ [][\A task \in tasks, ioFails \in BOOLEAN :
          /\ (proc = "running" /\ ~task.cancelled /\ ExtractionDone(task, ioFails))
               => ~loadingConversation'
          /\ (task.cancelled /\ SelectedExtractionInFlight
                /\ ExtractionDone(task, ioFails))
               => loadingConversation']_vars

\* C36, its case: the extractions of two sessions selected earlier are
\* still in flight, cancelled, beside that of the session selected last
TwoCancelledTasksWitness ==
  /\ proc = "running" /\ loadingConversation
  /\ SelectedExtractionInFlight
  /\ Cardinality({task \in tasks : task.cancelled}) = 2

\* C37: for a conversation without entries the derived row list is empty
\* in both render modes, so that Markdown mode shows 'No conversation
\* found' as Pretty mode does.
EmptyConversationHasNoRows ==
  (renderOut.op = "rows" /\ renderIn = <<>>) => renderOut.rows = <<>>

\* The keys that navigate the focused pane: j, k, the arrows, f, b, g and G
PaneNavKeys == {KeyJ, KeyK, KeyUp, KeyDown, KeyF, KeyB, KeyG, KeyShiftG}

\* What a key press outside export mode does to the pane that is not
\* focused and to the focus, given whether the session list's frame is
\* claimed (frames); a step has the effect or is no such key press
PaneKeyEffect(key, frames) ==
  /\ (key \in PaneNavKeys /\ focus = "right")
       => (selectedIndex' = selectedIndex /\ (frames => scrollOffset' = scrollOffset))
  /\ (key \in PaneNavKeys /\ focus = "left")
       => \/ rightScrollOffset' = rightScrollOffset
          \/ /\ selectedSession' # selectedSession
             /\ selectedIndex' # selectedIndex
             /\ rightScrollOffset' = 0
  /\ key.tab => focus' = (IF focus = "left" THEN "right" ELSE "left")
  /\ key = Key1 => focus' = "left"
  /\ key = Key2 => focus' = "right"

BoxRowsFillContentWidth ==
  (renderOut.op = "rows" /\ renderOut.mode = "pretty" /\ renderWidth >= 10)
    => /\ \A i \in 1..Len(renderOut.built) :
            renderOut.built[i].type \in {"box-border", "box-text"}
              => stringWidth(renderOut.built[i].text) = renderWidth
       /\ renderOut.rows = renderOut.built

\* C39, its case: at width 10 a line of "a" and three double-width code
\* points is wrapped into two box-text rows, the first padded by a column
WideLineBoxWitness ==
  /\ renderOut.op = "rows" /\ renderOut.mode = "pretty" /\ renderWidth = 10
  /\ renderIn = <<Entry("user", <<97, 12354, 12354, 12354>>)>>
  /\ Len(renderOut.built) = 4
  /\ renderOut.built[2].text = <<124, SP, 97, 12354, 12354, SP, SP, 124>>
  /\ renderOut.built[3].text = <<124, SP, 12354, SP, SP, SP, SP, SP, 124>>

\* The lines of a log other than those of a set
WithoutLines(log, lines) == SelectSeq(log, LAMBDA line : line \notin lines)

\* C40: a record whose message or content-part text is no string does not
\* make the extraction fail: the extraction returns, and returns every
\* entry it returns for the log without that record.
NonStringTextIsSurvivable ==
  (extractOut.done /\ \E i \in 1..Len(extractLog) : extractLog[i] \in {NumberMessage, NumberPart})
    => /\ extractOut.ok
       /\ LET others == extractConversation(
                           WithoutLines(extractLog, {NumberMessage, NumberPart})).entries
          IN \A i \in 1..Len(others) :
               \E j \in 1..Len(extractOut.entries) : extractOut.entries[j] = others[i]

\* A record whose content-part text is a number is rendered: "7"
NumberPartIsRendered ==
  (extractOut.done /\ extractLog = <<NumberPart>>)
    => extractOut.ok /\ extractOut.entries = <<Entry("user", <<55>>)>>

====
